---- MODULE Spec2Model ----
(***************************************************************************)
(* Registry-driven field extraction and completeness scoring of the AIBOM  *)
(* generator (src/src/models/registry.py, extractor.py, scoring.py).       *)
(*                                                                         *)
(* The specifications of this module share its variables:                  *)
(*   SpecResolve  the path resolver  FieldRegistryManager._get_nested_value *)
(*   SpecScore    calculate_completeness_score over assembled documents    *)
(*   SpecRescore  a second call of the scorer in the same process          *)
(*   Spec         EnhancedExtractor.extract_metadata, one strategy a step  *)
(*   SpecService  AIBOMService.generate_aibom, call after call             *)
(*   SpecLimit    ConcurrencyLimitMiddleware.dispatch, requests interleaved *)
(*                                                                         *)
(* JSON / Python values are tagged records [t, v]: the tag is compared     *)
(* before the payload, as isinstance() is in the source.                   *)
(***************************************************************************)
EXTENDS Integers, Sequences, FiniteSets, TLC

VARIABLES
    \* ---- path resolver (registry.py) ----
    rdoc,       \* the document handed to resolve
    rpath,      \* the path: a sequence of tokens, or NonStringPath
    rchunks,    \* number of pieces rpath was assembled from
    rres,       \* outcome of the last resolve call, or Idle
    \* ---- completeness scorer (scoring.py) ----
    reg,        \* index of the loaded registry in Registries
    aibom,      \* the assembled document being scored
    prov,       \* extraction_results handed to the scorer (NoProv when omitted)
    report,     \* the score report, or Idle before the call
    layout,     \* where aibom carries each field (SpecRescore)
    tie,        \* the way this process's floating-point ties fall (SpecRescore)
    previous,   \* the report of the call before the last one, or Idle
    lastcall,   \* the last call: "none", "first", "again" or "larger"
    \* ---- extraction engine (extractor.py) ----
    ctx,                 \* extraction_context of the current run
    extraction_results,  \* self.extraction_results: field -> ExtractionResult
    metadata,            \* the metadata dict under construction / returned
    epc,                 \* position of extract_metadata
    fidx,                \* index into registry_fields of the field in progress
    calls,               \* strategies consulted so far for the field in progress
    aborted,             \* fields whose chain was cut short by an exception
    runs,                \* number of extraction runs started
    \* ---- service (service.py, utils/validation.py) ----
    enhancement_report,  \* self.enhancement_report
    service_results,     \* self.extraction_results of the service
    _cached_schema,      \* the module's schema cache (validation.py)
    returned,            \* the document the last generate_aibom call returned
    generation,          \* the last generate_aibom call: its model and outcome
    validation,          \* what the last validate_aibom call returned, <<>> before it
    \* ---- concurrency limit (utils/rate_limiting.py) ----
    semaphore,           \* self.semaphore: the number of free permits
    mpc,                 \* where each request is in dispatch
    acquired,            \* the local `acquired` of each request
    status               \* the response status of each request, 0 before it

rvars == <<rdoc, rpath, rchunks, rres>>
svars == <<reg, aibom, prov, report, layout, tie, previous, lastcall>>
evars == <<ctx, extraction_results, metadata, epc, fidx, calls, aborted, runs>>
gvars ==
    <<enhancement_report, service_results, _cached_schema, returned, generation, validation>>
mvars == <<semaphore, mpc, acquired, status>>
vars == <<rvars, svars, evars, gvars, mvars>>

Idle == [t |-> "idle", v |-> "idle"]

(***************************************************************************)
(* Python values                                                           *)
(***************************************************************************)
Null == [t |-> "null", v |-> "None"]
S(x) == [t |-> "str", v |-> x]
N(i) == [t |-> "int", v |-> i]
L(s) == [t |-> "list", v |-> s]
D(f) == [t |-> "dict", v |-> f]
EmptyDict == [t |-> "dict", v |-> <<>>]

IsNull(x) == x.t = "null"
IsStr(x) == x.t = "str"
IsList(x) == x.t = "list"
IsDict(x) == x.t = "dict"

\* dict.get(key) and `key in dict`
HasKey(d, k) == IsDict(d) /\ k \in DOMAIN d.v
Get(d, k) == IF HasKey(d, k) THEN d.v[k] ELSE Null

\* bool(x)
Truthy(x) ==
    CASE x.t = "null" -> FALSE
      [] x.t = "str" -> x.v # ""
      [] x.t = "int" -> x.v # 0
      [] x.t = "list" -> Len(x.v) > 0
      [] x.t = "dict" -> DOMAIN x.v # {}
      [] OTHER -> TRUE

\* str(x) for the values the model uses
PyStr(x) ==
    CASE x.t = "str" -> x.v
      [] x.t = "null" -> "None"
      [] x.t = "int" -> (CASE x.v = 0 -> "0" [] x.v = 1 -> "1" [] OTHER -> "int")
      [] x.t = "list" -> (IF Len(x.v) = 0 THEN "[]"
                          ELSE IF Len(x.v) = 1 /\ x.v[1].t = "str"
                               THEN "['" \o x.v[1].v \o "']" ELSE "[...]")
      [] OTHER -> "{...}"

(***************************************************************************)
(* Path resolver: registry.py                                              *)
(* A path is a sequence of tokens.  "$", ".", "[", "]", "-" are the single *)
(* characters the code tests for; a digit token is one decimal digit; an   *)
(* identifier token is a run of other characters; a predicate token is a   *)
(* whole [?(@.key=='value')] group; BrokenPred holds the opener "[?(@."     *)
(* without a group the regular expression accepts.                         *)
(***************************************************************************)
NonStringPath == <<"<not a str>">>

Digits == {"0", "1", "2"}
DigitVal(d) == CASE d = "0" -> 0 [] d = "1" -> 1 [] OTHER -> 2

PredK == "[?(@.k=='v')]"
PredType == "[?(@.type=='distribution')]"
PredPP == "[?(@.name=='primaryPurpose')]"
PredSB == "[?(@.name=='suppliedBy')]"
BrokenPred == "[?(@.k="
PredToks == {PredK, PredType, PredPP, PredSB}
PredKey(p) == CASE p = PredK -> "k" [] p = PredType -> "type" [] OTHER -> "name"
PredVal(p) ==
    CASE p = PredK -> "v"
      [] p = PredType -> "distribution"
      [] p = PredPP -> "primaryPurpose"
      [] OTHER -> "suppliedBy"

HasTok(s, c) == \E i \in 1..Len(s) : s[i] = c
CountTok(s, c) == Cardinality({i \in 1..Len(s) : s[i] = c})
FirstTok(s, c) == CHOOSE i \in 1..Len(s) : s[i] = c /\ \A j \in 1..(i-1) : s[j] # c

\* the text of a key: one identifier token names a key; any longer run of
\* characters is a string that is the key of no modelled document
KeyText(part) == IF Len(part) = 1 THEN part[1] ELSE "<no such key>"

\* str.rstrip(']')
RECURSIVE RStripBracket(_)
RStripBracket(s) ==
    IF Len(s) > 0 /\ s[Len(s)] = "]" THEN RStripBracket(SubSeq(s, 1, Len(s) - 1)) ELSE s

\* int(s): accepted literal?  and its value
IsIntLiteral(s) ==
    LET body == IF Len(s) > 0 /\ s[1] = "-" THEN Tail(s) ELSE s
    IN Len(body) > 0 /\ \A i \in 1..Len(body) : body[i] \in Digits
RECURSIVE DecVal(_)
DecVal(s) == IF Len(s) = 0 THEN 0 ELSE 10 * DecVal(SubSeq(s, 1, Len(s) - 1)) + DigitVal(s[Len(s)])
IntOf(s) == IF s[1] = "-" THEN 0 - DecVal(Tail(s)) ELSE DecVal(s)

\* _split_path: split on "." outside brackets, dropping empty parts
RECURSIVE SplitFrom(_, _, _, _, _)
SplitFrom(path, i, parts, current_part, in_brackets) ==
    IF i > Len(path)
    THEN IF Len(current_part) > 0 THEN Append(parts, current_part) ELSE parts
    ELSE LET char == path[i] IN
         IF char = "[" THEN SplitFrom(path, i + 1, parts, Append(current_part, char), TRUE)
         ELSE IF char = "]" THEN SplitFrom(path, i + 1, parts, Append(current_part, char), FALSE)
         ELSE IF char = "." /\ ~in_brackets
              THEN SplitFrom(path, i + 1,
                             IF Len(current_part) > 0 THEN Append(parts, current_part) ELSE parts,
                             <<>>, in_brackets)
         ELSE SplitFrom(path, i + 1, parts, Append(current_part, char), in_brackets)
_split_path(path) == SplitFrom(path, 1, <<>>, <<>>, FALSE)

\* outcomes of a resolution step
Raised == [exc |-> TRUE, present |-> FALSE, value |-> Null]
NotFound == [exc |-> FALSE, present |-> FALSE, value |-> Null]
Found(x) == [exc |-> FALSE, present |-> TRUE, value |-> x]

\* `key in current` followed by current[key] of an indexed part (registry.py 239-240):
\* the container after the step, or a raise
KeyStep(current, key) ==
    IF Len(key) = 0 THEN Found(current)
    ELSE CASE current.t = "dict" ->
                 IF KeyText(key) \in DOMAIN current.v THEN Found(current.v[KeyText(key)])
                 ELSE Found(current)
           [] current.t = "list" ->
                 \* membership is by equality; list[str] raises TypeError
                 IF \E j \in 1..Len(current.v) :
                        current.v[j].t = "str" /\ current.v[j].v = KeyText(key)
                 THEN Raised ELSE Found(current)
           [] current.t = "str" ->
                 \* substring test; str[str] raises TypeError
                 IF current.v = KeyText(key) THEN Raised ELSE Found(current)
           [] OTHER -> Raised   \* `in` on None or int raises TypeError

\* the loop over parts (registry.py 233-251)
RECURSIVE Traverse(_, _)
Traverse(current, parts) ==
    IF Len(parts) = 0 THEN Found(current)
    ELSE LET part == Head(parts) IN
         IF HasTok(part, "[") /\ HasTok(part, "]")
         THEN IF CountTok(part, "[") # 1 THEN Raised      \* unpacking split('[')
              ELSE LET b == FirstTok(part, "[")
                       key == SubSeq(part, 1, b - 1)
                       index_str == RStripBracket(SubSeq(part, b + 1, Len(part)))
                   IN IF ~IsIntLiteral(index_str) THEN Raised   \* int() ValueError
                      ELSE LET index == IntOf(index_str)
                               stepped == KeyStep(current, key)
                           IN IF stepped.exc THEN Raised
                              ELSE IF IsList(stepped.value) /\ 0 <= index
                                      /\ index < Len(stepped.value.v)
                                   THEN Traverse(stepped.value.v[index + 1], Tail(parts))
                                   ELSE NotFound
         ELSE IF IsDict(current) /\ KeyText(part) \in DOMAIN current.v
              THEN Traverse(current.v[KeyText(part)], Tail(parts))
              ELSE NotFound

\* "value is meaningful" (registry.py 254); MeaningfulNotNone is the test
\* without its two emptiness comparisons
MeaningfulNotNone(x) == ~IsNull(x)
Meaningful(x) ==
    /\ ~IsNull(x)
    /\ ~(IsStr(x) /\ x.v = "")
    /\ ~(IsList(x) /\ Len(x.v) = 0)

StripRoot(path) ==
    IF Len(path) >= 2 /\ path[1] = "$" /\ path[2] = "." THEN SubSeq(path, 3, Len(path)) ELSE path

HasPredOpener(path) == \E i \in 1..Len(path) : path[i] \in PredToks \cup {BrokenPred}

\* re.search of (.+)\[\?\(@\.(\w+)==\'([^\']+)\'\)\](.*): the greedy prefix
\* takes the last complete group that has at least one character before it
PredMatchAt(path) ==
    LET cands == {j \in 2..Len(path) : path[j] \in PredToks}
    IN IF cands = {} THEN 0 ELSE CHOOSE j \in cands : \A k \in cands : k <= j

\* the scan `for item in base_list: ... break` stops at the first item that
\* matches (registry.py 287-291); LastMatching is the scan without the break
LastMatching(hits) == CHOOSE i \in hits : \A h \in hits : h <= i
FirstMatching(hits) == CHOOSE i \in hits : \A h \in hits : i <= h

\* body of _get_nested_value / _handle_property_array_path, before their
\* except clauses; exc = TRUE where the Python raises
RECURSIVE NestedBody(_, _), PropertyArrayBody(_, _)
CatchAll(r) == IF r.exc THEN NotFound ELSE r
NestedBody(data, path0) ==
    IF path0 = NonStringPath THEN Raised      \* path.startswith: AttributeError
    ELSE LET path == StripRoot(path0) IN
         IF HasPredOpener(path) THEN CatchAll(PropertyArrayBody(data, path))
         ELSE LET walked == Traverse(data, _split_path(path)) IN
              IF walked.exc THEN Raised
              ELSE IF walked.present /\ Meaningful(walked.value) THEN walked
              ELSE NotFound
PropertyArrayBody(data, path) ==
    LET j == PredMatchAt(path) IN
    IF j = 0 THEN NotFound
    ELSE LET base_path == SubSeq(path, 1, j - 1)
             filter_key == PredKey(path[j])
             filter_val == PredVal(path[j])
             suffix == SubSeq(path, j + 1, Len(path))
             base == CatchAll(NestedBody(data, base_path))
         IN IF ~base.present \/ ~IsList(base.value) THEN NotFound
            ELSE LET base_list == base.value.v
                     hits == {i \in 1..Len(base_list) :
                                 /\ IsDict(base_list[i])
                                 /\ PyStr(Get(base_list[i], filter_key)) = filter_val}
                 IN IF hits = {} THEN NotFound
                    ELSE LET found_item == base_list[FirstMatching(hits)]
                         IN IF Len(suffix) > 0
                            THEN CatchAll(NestedBody(found_item,
                                     IF suffix[1] = "." THEN Tail(suffix) ELSE suffix))
                            ELSE Found(found_item)

\* _get_nested_value with its try/except: what the caller sees
_get_nested_value(data, path) == CatchAll(NestedBody(data, path))
detect_field_presence(doc, field_path) == _get_nested_value(doc, field_path)

(***************************************************************************)
(* SpecResolve: resolve(document, path) over bounded paths                 *)
(***************************************************************************)
MaxChunks == 4

\* {"a": [{"k": "v", "value": "x", "e": ""}, 1, {"k": "v", "value": "y"}],
\*  "n": [[2]], "c": {"value": None, "e": []}, "s": "k"}
ResolveDoc ==
    D([a |-> L(<<D([k |-> S("v"), value |-> S("x"), e |-> S("")]), N(1),
                 D([k |-> S("v"), value |-> S("y"), e |-> S("z")])>>),
       n |-> L(<<L(<<N(2)>>)>>),
       c |-> D([value |-> Null, e |-> L(<<>>)]),
       s |-> S("k")])

\* the pieces paths are assembled from
PathChunks ==
    { <<"$", ".">>, <<"a">>, <<"n">>, <<"c">>, <<"s">>,
      <<".", "value">>, <<".", "e">>, <<".", "k">>, <<".">>,
      <<"[", "0", "]">>, <<"[", "2", "]">>, <<"[", "-", "1", "]">>, <<"[", "k", "]">>,
      <<"]">>, <<PredK>>, <<BrokenPred>>, <<"value">> }

RescoreIdle == layout = Idle /\ tie = Idle /\ previous = Idle /\ lastcall = "none"
ScoreIdle == reg = 1 /\ aibom = Idle /\ prov = Idle /\ report = Idle /\ RescoreIdle
ExtractIdle ==
    /\ ctx = Idle /\ extraction_results = <<>> /\ metadata = <<>> /\ epc = "idle"
    /\ fidx = 0 /\ calls = <<>> /\ aborted = {} /\ runs = 0

ServiceIdle ==
    /\ enhancement_report = Idle /\ service_results = Idle /\ _cached_schema = Idle
    /\ returned = Idle /\ generation = Idle /\ validation = <<>>
LimitIdle == semaphore = 0 /\ mpc = <<>> /\ acquired = <<>> /\ status = <<>>

ResolveInit ==
    /\ rdoc = ResolveDoc
    /\ rpath = <<>>
    /\ rchunks = 0
    /\ rres = Idle
    /\ ScoreIdle
    /\ ExtractIdle
    /\ ServiceIdle
    /\ LimitIdle

\* resolve(rdoc, rpath \o chunk)
ResolveLonger(chunk) ==
    /\ rpath # NonStringPath
    /\ rchunks < MaxChunks
    /\ rpath' = rpath \o chunk
    /\ rchunks' = rchunks + 1
    /\ rres' = detect_field_presence(rdoc, rpath')
    /\ UNCHANGED <<rdoc, svars, evars, gvars, mvars>>

\* resolve(rdoc, path) with a path that is not a string (None, a number)
ResolveNonString ==
    /\ rpath = <<>>
    /\ rpath' = NonStringPath
    /\ rchunks' = rchunks
    /\ rres' = detect_field_presence(rdoc, NonStringPath)
    /\ UNCHANGED <<rdoc, svars, evars, gvars, mvars>>

ResolveNext ==
    \/ \E chunk \in PathChunks : ResolveLonger(chunk)
    \/ ResolveNonString

SpecResolve == ResolveInit /\ [][ResolveNext]_vars

(***************************************************************************)
(* Field registry: registry.py.  A registry is the parsed catalog: the     *)
(* field names in file order, each field's definition, and scoring_config. *)
(***************************************************************************)
P_bomFormat == <<"$", ".", "bomFormat">>
P_specVersion == <<"$", ".", "specVersion">>
P_serialNumber == <<"$", ".", "serialNumber">>
P_version == <<"$", ".", "version">>
P_name == <<"$", ".", "metadata", ".", "component", ".", "name">>
P_type == <<"$", ".", "components", "[", "0", "]", ".", "type">>
P_purl == <<"$", ".", "components", "[", "0", "]", ".", "purl">>
P_description == <<"$", ".", "components", "[", "0", "]", ".", "description">>
P_licenses == <<"$", ".", "components", "[", "0", "]", ".", "licenses">>
P_primaryPurpose == <<"$", ".", "metadata", ".", "properties", PredPP, ".", "value">>
P_suppliedBy == <<"$", ".", "metadata", ".", "properties", PredSB, ".", "value">>
P_downloadLocation == <<"$", ".", "externalReferences", PredType, ".", "url">>
P_limitation == <<"$", ".", "components", "[", "0", "]", ".", "modelCard", ".",
                  "considerations", ".", "technicalLimitations">>

FieldDef(tier, category, jsonpath) ==
    [tier |-> tier, category |-> category, jsonpath |-> jsonpath]

MainFields ==
    <<"bomFormat", "specVersion", "serialNumber", "version", "name",
      "type", "purl", "description", "licenses", "primaryPurpose", "suppliedBy",
      "downloadLocation", "limitation">>

MainConfig ==
    [bomFormat |-> FieldDef("critical", "required_fields", P_bomFormat),
     specVersion |-> FieldDef("critical", "required_fields", P_specVersion),
     serialNumber |-> FieldDef("critical", "required_fields", P_serialNumber),
     version |-> FieldDef("critical", "required_fields", P_version),
     name |-> FieldDef("critical", "component_basic", P_name),
     type |-> FieldDef("important", "component_basic", P_type),
     purl |-> FieldDef("important", "component_basic", P_purl),
     description |-> FieldDef("important", "component_basic", P_description),
     licenses |-> FieldDef("important", "component_basic", P_licenses),
     primaryPurpose |-> FieldDef("important", "metadata", P_primaryPurpose),
     suppliedBy |-> FieldDef("important", "metadata", P_suppliedBy),
     downloadLocation |-> FieldDef("supplementary", "external_references", P_downloadLocation),
     limitation |-> FieldDef("supplementary", "component_model_card", P_limitation)]

\* scoring_config.scoring_profiles of the modelled catalogs: the built-in
\* profiles of registry.py 134-154 cut down to the catalog's fields
MainProfiles ==
    [basic |-> [required_fields |-> <<"bomFormat", "specVersion", "serialNumber", "version", "name">>,
                minimum_score |-> 40],
     standard |-> [required_fields |-> <<"bomFormat", "specVersion", "serialNumber", "version", "name",
                                         "downloadLocation", "primaryPurpose", "suppliedBy">>,
                   minimum_score |-> 70],
     advanced |-> [required_fields |-> <<"bomFormat", "specVersion", "serialNumber", "version", "name",
                                         "downloadLocation", "primaryPurpose", "suppliedBy",
                                         "type", "purl", "description", "licenses", "limitation">>,
                   minimum_score |-> 85]]

\* the validation_message entries of the catalogs: a full one on a critical
\* field, one without "recommendation" on an important field, a full one on a
\* supplementary field
MainMessages ==
    [bomFormat |-> [missing |-> "bomFormat is missing",
                    recommendation |-> "Set bomFormat to CycloneDX"],
     purl |-> [missing |-> "purl is missing"],
     downloadLocation |-> [missing |-> "downloadLocation is missing",
                           recommendation |-> "Add a distribution reference"]]

\* four more supplementary fields, in a category of their own
ExtraFields == <<"energyConsumption", "safetyRiskAssessment", "hyperparameter", "typeOfModel">>
ExtraPath(f) == <<"$", ".", "components", "[", "0", "]", ".", f>>
WideFields == MainFields \o ExtraFields
WideConfig ==
    [f \in DOMAIN MainConfig \cup {ExtraFields[i] : i \in 1..Len(ExtraFields)} |->
        IF f \in DOMAIN MainConfig THEN MainConfig[f]
        ELSE FieldDef("supplementary", "security", ExtraPath(f))]

\* the catalog with a tier string that is none of the three known ones
OddTierConfig ==
    [MainConfig EXCEPT !["limitation"] =
        FieldDef("optional", "component_model_card", P_limitation)]

\* catalog 1: the default category weights; catalog 2: weights whose sum
\* exceeds 100 and one negative weight; catalog 3: a sixth category with a
\* weight of its own, the six weights summing to 100; catalog 4: catalog 1
\* with the tier "optional" on one field
Registries ==
    << [fields |-> MainFields, config |-> MainConfig, profiles |-> MainProfiles,
        validation_message |-> MainMessages,
        category_weights |-> [required_fields |-> 20, metadata |-> 20, component_basic |-> 20,
                              component_model_card |-> 30, external_references |-> 10]],
       [fields |-> MainFields, config |-> MainConfig, profiles |-> MainProfiles,
        validation_message |-> MainMessages,
        category_weights |-> [required_fields |-> 60, metadata |-> 40, component_basic |-> 45,
                              component_model_card |-> 30, external_references |-> 0 - 30]],
       [fields |-> WideFields, config |-> WideConfig, profiles |-> MainProfiles,
        validation_message |-> MainMessages,
        category_weights |-> [required_fields |-> 20, metadata |-> 20, component_basic |-> 20,
                              component_model_card |-> 15, external_references |-> 10,
                              security |-> 15]],
       [fields |-> MainFields, config |-> OddTierConfig, profiles |-> MainProfiles,
        validation_message |-> MainMessages,
        category_weights |-> [required_fields |-> 20, metadata |-> 20, component_basic |-> 20,
                              component_model_card |-> 30, external_references |-> 10]] >>

\* get_field_definitions / generate_field_classification / generate_completeness_profiles
get_field_definitions(R) == R.config
FIELD_CLASSIFICATION(R) ==
    [f \in DOMAIN R.config |-> [tier |-> R.config[f].tier, category |-> R.config[f].category]]
COMPLETENESS_PROFILES(R) == R.profiles
\* generate_validation_messages: the fields with a validation_message, the
\* two texts defaulted where the entry lacks them
VALIDATION_MESSAGES(R) ==
    [f \in DOMAIN R.validation_message |->
        LET validation_msg == R.validation_message[f]
        IN [missing |-> IF "missing" \in DOMAIN validation_msg THEN validation_msg.missing
                        ELSE "Missing field: " \o f,
            recommendation |->
                IF "recommendation" \in DOMAIN validation_msg THEN validation_msg.recommendation
                ELSE "Consider adding " \o f \o " field"]]

(***************************************************************************)
(* Completeness scorer: scoring.py.  Scores are in tenths of a point.      *)
(***************************************************************************)
NoProv == [t |-> "null", v |-> "None"]

\* any(prop.get("name") in {field, "spdx:" + field} for prop in props)
PropNamed(props, field) ==
    IsList(props) /\ \E i \in 1..Len(props.v) :
        LET nm == Get(props.v[i], "name")
        IN IsStr(nm) /\ nm.v \in {field, "spdx:" \o field}

ConsiderationAliases(field) ==
    CASE field = "limitation" -> {"technicalLimitations", "limitations"}
      [] field = "safetyRiskAssessment" -> {"ethicalConsiderations", "safetyRiskAssessment"}
      [] field = "energyConsumption" -> {"environmentalConsiderations", "energyConsumption"}
      [] OTHER -> {}

\* check_field_in_aibom: the generic structural search
check_field_in_aibom(doc, field) ==
    LET md == IF HasKey(doc, "metadata") THEN doc.v["metadata"] ELSE EmptyDict
        components == IF HasKey(doc, "components") THEN doc.v["components"] ELSE L(<<>>)
        component == components.v[1]
        model_card == IF HasKey(component, "modelCard") THEN component.v["modelCard"] ELSE EmptyDict
        considerations == model_card.v["considerations"]
    IN \/ HasKey(doc, field)
       \/ HasKey(md, field)
       \/ HasKey(md, "properties") /\ PropNamed(md.v["properties"], field)
       \/ /\ Truthy(components)
          /\ \/ HasKey(component, field)
             \/ HasKey(component, "properties") /\ PropNamed(component.v["properties"], field)
             \/ HasKey(model_card, field)
             \/ HasKey(model_card, "modelParameters")
                    /\ HasKey(model_card.v["modelParameters"], field)
             \/ /\ HasKey(model_card, "considerations")
                /\ \/ \E sec \in ConsiderationAliases(field) :
                          HasKey(considerations, sec) /\ Truthy(considerations.v[sec])
                   \/ HasKey(considerations, field)
       \/ /\ field = "downloadLocation"
          /\ HasKey(doc, "externalReferences")
          /\ \E i \in 1..Len(doc.v["externalReferences"].v) :
                LET ref == doc.v["externalReferences"].v[i]
                IN PyStr(Get(ref, "type")) = "distribution" /\ Truthy(Get(ref, "url"))

\* the confidences that count as present (scoring.py 134); with "low" added
\* in ConfidenceCountsLow
ConfidenceCountsLow(val) == val \in {"low", "medium", "high"}
ConfidenceCounts(val) == val \in {"medium", "high"}

\* check_field_with_enhanced_results: registry path, then provenance, then
\* the structural search
check_field_with_enhanced_results(R, doc, field, extraction) ==
    LET fields == get_field_definitions(R)
        field_path == IF field \in DOMAIN fields THEN fields[field].jsonpath ELSE <<>>
    IN IF Len(field_path) > 0 /\ detect_field_presence(doc, field_path).present THEN TRUE
       ELSE IF ~IsNull(extraction) /\ DOMAIN extraction.v # {} /\ field \in DOMAIN extraction.v
            THEN LET val == extraction.v[field].confidence
                 IN IF val = "none" THEN FALSE ELSE ConfidenceCounts(val)
            ELSE check_field_in_aibom(doc, field)

SeqToSet(q) == {q[i] : i \in 1..Len(q)}

\* determine_completeness_profile
determine_completeness_profile(R, doc, score) ==
    LET profiles == COMPLETENESS_PROFILES(R)
        satisfied_profiles ==
            {pn \in DOMAIN profiles :
                /\ \A f \in SeqToSet(profiles[pn].required_fields) : check_field_in_aibom(doc, f)
                /\ score >= 10 * profiles[pn].minimum_score}
    IN IF "advanced" \in satisfied_profiles THEN [name |-> "Advanced", satisfied |-> TRUE]
       ELSE IF "standard" \in satisfied_profiles THEN [name |-> "Standard", satisfied |-> TRUE]
       ELSE IF "basic" \in satisfied_profiles THEN [name |-> "Basic", satisfied |-> TRUE]
       ELSE [name |-> "incomplete", satisfied |-> FALSE]

\* round(x, 1) of the double x nearest to n / d tenths (d > 0).  Away from a
\* decimal tie the nearest tenth results.  At an exact tie the double lies just
\* above or just below the tie (or on it), so either neighbour can result: `up`
\* is the direction the floating-point value takes.
RoundDiv(n, d, up) ==
    LET q == n \div d
        r == n - q * d
    IN IF 2 * r > d THEN q + 1
       ELSE IF 2 * r = d THEN (IF up THEN q + 1 ELSE q)
       ELSE q

\* the directions of one call: for the section scores and for the total
FloatTies == [section : BOOLEAN, total : BOOLEAN]

RECURSIVE SumOver(_, _)
SumOver(f, dom) ==
    IF dom = {} THEN 0 ELSE LET x == CHOOSE y \in dom : TRUE IN f[x] + SumOver(f, dom \ {x})

\* " and ".join(reasons), None when there is none
RECURSIVE JoinAnd(_)
JoinAnd(reasons) ==
    IF Len(reasons) = 1 THEN reasons[1] ELSE reasons[1] \o " and " \o JoinAnd(Tail(reasons))
penalty_reason_of(reasons) == IF Len(reasons) > 0 THEN S(JoinAnd(reasons)) ELSE Null

FixedCategories ==
    {"required_fields", "metadata", "component_basic", "component_model_card",
     "external_references"}
DefaultCategoryWeight(c) ==
    CASE c = "component_model_card" -> 30 [] c = "external_references" -> 10 [] OTHER -> 20

\* the critical-field penalty with the upper threshold one too low
CriticalPenaltyFromThree(missing_critical) ==
    IF missing_critical >= 3 THEN <<800, <<"Multiple critical fields missing">> >>
    ELSE IF missing_critical >= 2 THEN <<900, <<"Some critical fields missing">> >>
    ELSE <<1000, <<>> >>

\* the critical-field penalty with its two factors exchanged
CriticalPenaltySwapped(missing_critical) ==
    IF missing_critical > 3 THEN <<900, <<"Multiple critical fields missing">> >>
    ELSE IF missing_critical >= 2 THEN <<800, <<"Some critical fields missing">> >>
    ELSE <<1000, <<>> >>

\* the critical-field penalty (scoring.py 281-286), in thousandths
CriticalPenalty(missing_critical) ==
    IF missing_critical > 3 THEN <<800, <<"Multiple critical fields missing">> >>
    ELSE IF missing_critical >= 2 THEN <<900, <<"Some critical fields missing">> >>
    ELSE <<1000, <<>> >>

\* the important-field penalty (scoring.py 288-290), in thousandths
ImportantPenalty(missing_important) ==
    IF missing_important >= 5 THEN <<950, <<"Several important fields missing">> >>
    ELSE <<1000, <<>> >>

\* the clamp with its lower bound forgotten
ClampScoreUpperOnly(x) == IF x > 1000 THEN 1000 ELSE x

\* final_score = max(0.0, min(final_score, 100.0))
ClampScore(x) == IF x < 0 THEN 0 ELSE IF x > 1000 THEN 1000 ELSE x

\* generate_field_recommendations
Recommendation(priority, field, message, recommendation) ==
    [priority |-> priority, field |-> field, message |-> message,
     recommendation |-> recommendation]
RECURSIVE FromMessages(_, _, _, _, _)
FromMessages(R, priority, fields, label, advice) ==
    IF Len(fields) = 0 THEN <<>>
    ELSE LET field == Head(fields)
             messages == VALIDATION_MESSAGES(R)
         IN << IF field \in DOMAIN messages
               THEN Recommendation(priority, field, messages[field].missing,
                                   messages[field].recommendation)
               ELSE Recommendation(priority, field, label \o field, advice[1] \o field \o advice[2]) >>
            \o FromMessages(R, priority, Tail(fields), label, advice)
\* the low-priority loop with its cap one higher
SupplementaryCapSix(fields) == SubSeq(fields, 1, IF Len(fields) < 6 THEN Len(fields) ELSE 6)
\* `if supplementary_count >= 5: break` (scoring.py 208-209)
SupplementaryCap(fields) == SubSeq(fields, 1, IF Len(fields) < 5 THEN Len(fields) ELSE 5)
generate_field_recommendations(R, missing_fields) ==
    FromMessages(R, "high", missing_fields.critical, "Missing critical field: ",
                 <<"Add ", " to improve documentation completeness">>)
    \o FromMessages(R, "medium", missing_fields.important, "Missing field: ",
                    <<"Consider adding ", "">>)
    \o [i \in 1..Len(SupplementaryCap(missing_fields.supplementary)) |->
           LET field == missing_fields.supplementary[i]
           IN Recommendation("low", field, "Missing supplementary field: " \o field,
                             "Consider adding " \o field)]

\* the lists of a module-level accumulator: what the call before left
StaleMissing ==
    IF report = Idle
    THEN [critical |-> <<>>, important |-> <<>>, supplementary |-> <<>>]
    ELSE report.missing_fields
\* missing_fields = {"critical": [], "important": [], "supplementary": []}:
\* the lists a call starts from (scoring.py 234)
FreshMissing == [critical |-> <<>>, important |-> <<>>, supplementary |-> <<>>]

\* is_present of the evaluation loop (scoring.py 251)
FieldPresent(R, doc, extraction, f) == check_field_with_enhanced_results(R, doc, f, extraction)

\* calculate_completeness_score after the evaluation loop: `present` is is_present
\* of every field
ScoreFrom(R, doc, present, fp) ==
    LET cw == R.category_weights
        max_scores == [c \in FixedCategories |->
                          IF c \in DOMAIN cw THEN cw[c] ELSE DefaultCategoryWeight(c)]
        cls == FIELD_CLASSIFICATION(R)
        missing(tier) == SelectSeq(R.fields, LAMBDA f : ~present[f] /\ cls[f].tier = tier)
        missing_fields == [critical |-> FreshMissing.critical \o missing("critical"),
                           important |-> FreshMissing.important \o missing("important"),
                           supplementary |-> FreshMissing.supplementary \o missing("supplementary")]
        categories == FixedCategories \cup {cls[f].category : f \in DOMAIN cls}
        total(c) == Cardinality({f \in DOMAIN cls : cls[f].category = c})
        npresent(c) == Cardinality({f \in DOMAIN cls : cls[f].category = c /\ present[f]})
        category_scores ==
            [c \in categories |->
                IF total(c) > 0
                THEN RoundDiv(10 * npresent(c) * (IF c \in FixedCategories THEN max_scores[c] ELSE 0),
                              total(c), fp.section)
                ELSE 0]
        subtotal_score == SumOver(category_scores, categories)
        crit == CriticalPenalty(Len(missing_fields.critical))
        imp == ImportantPenalty(Len(missing_fields.important))
        \* penalty_factor in millionths: the two factors multiplied
        penalty_factor == crit[1] * imp[1]
        penalty_reasons == crit[2] \o imp[2]
        final_score == ClampScore(RoundDiv(subtotal_score * penalty_factor, 1000000, fp.total))
    IN [total_score |-> final_score,
        subtotal_score |-> subtotal_score,
        section_scores |-> category_scores,
        max_scores |-> max_scores,
        field_checklist |->
            [f \in DOMAIN cls |->
                [present |-> present[f],
                 stars |-> IF cls[f].tier = "critical" THEN 3
                           ELSE IF cls[f].tier = "important" THEN 2 ELSE 1]],
        missing_fields |-> missing_fields,
        completeness_profile |-> determine_completeness_profile(R, doc, final_score),
        penalty_factor |-> penalty_factor,
        penalty_applied |-> penalty_factor < 1000000,
        penalty_reason |-> penalty_reason_of(penalty_reasons),
        recommendations |-> generate_field_recommendations(R, missing_fields)]

\* the evaluation loop (scoring.py 239-260): is_present of every field, in
\* FIELD_CLASSIFICATION order
RECURSIVE EvaluateFields(_, _, _, _)
EvaluateFields(R, doc, extraction, i) ==
    IF i > Len(R.fields) THEN <<>>
    ELSE <<FieldPresent(R, doc, extraction, R.fields[i])>>
         \o EvaluateFields(R, doc, extraction, i + 1)

calculate_completeness_score(R, doc, extraction, fp) ==
    LET is_present == EvaluateFields(R, doc, extraction, 1)
    IN ScoreFrom(R, doc, [f \in DOMAIN R.config |->
                            is_present[CHOOSE i \in 1..Len(R.fields) : R.fields[i] = f]], fp)

(***************************************************************************)
(* SpecScore: calculate_completeness_score over bounded documents          *)
(***************************************************************************)
\* where a document carries each field: "absent", "ok", or an empty value
Layouts ==
    [bomFormat : {"absent", "ok", "empty"},      \* "" when empty
     specVersion : {"absent", "ok"},
     ident : {"absent", "ok"},                   \* serialNumber and version
     name : {"absent", "ok", "component"},       \* metadata.component / components[0]
     typepurl : {"absent", "ok"},                \* components[0].type and .purl
     description : {"absent", "ok", "empty"},    \* None when empty
     licenses : {"absent", "ok", "empty"},       \* [] when empty
     primaryPurpose : {"absent", "ok"},
     suppliedBy : {"absent", "ok"},
     downloadLocation : {"absent", "ok"},
     limitation : {"absent", "ok"},
     extras : {"absent", "ok"}]                  \* the four ExtraFields of components[0]

Prop(name, value) == D([name |-> S(name), value |-> S(value)])
Opt(cond, x) == IF cond THEN <<x>> ELSE <<>>

BuildDoc(lay) ==
    LET compKeys ==
            (IF lay.name = "component" THEN {"name"} ELSE {})
            \cup (IF lay.typepurl = "ok" THEN {"type", "purl"} ELSE {})
            \cup (IF lay.description # "absent" THEN {"description"} ELSE {})
            \cup (IF lay.licenses # "absent" THEN {"licenses"} ELSE {})
            \cup (IF lay.limitation = "ok" THEN {"modelCard"} ELSE {})
            \cup (IF lay.extras = "ok" THEN SeqToSet(ExtraFields) ELSE {})
        compVal(k) ==
            CASE k = "name" -> S("bert")
              [] k \in SeqToSet(ExtraFields) -> S("stated")
              [] k = "type" -> S("machine-learning-model")
              [] k = "purl" -> S("pkg:huggingface/acme/bert@1.0")
              [] k = "description" -> (IF lay.description = "ok" THEN S("A model") ELSE Null)
              [] k = "licenses" ->
                    (IF lay.licenses = "ok" THEN L(<<D([license |-> D([id |-> S("MIT")])])>>)
                     ELSE L(<<>>))
              [] OTHER -> D([considerations |-> D([technicalLimitations |-> S("English only")])])
        component == D([k \in compKeys |-> compVal(k)])
        mdComponent == D([k \in (IF lay.name = "ok" THEN {"name"} ELSE {}) |-> S("bert")])
        properties == L(Opt(lay.primaryPurpose = "ok", Prop("primaryPurpose", "text-generation"))
                        \o Opt(lay.suppliedBy = "ok", Prop("suppliedBy", "acme")))
        md == D([component |-> mdComponent, properties |-> properties])
        refs == L(<<D([type |-> S("website"), url |-> S("https://huggingface.co/acme/bert")])>>
                  \o Opt(lay.downloadLocation = "ok",
                         D([type |-> S("distribution"),
                            url |-> S("https://huggingface.co/acme/bert/tree/main")])))
        topKeys ==
            {"metadata", "components", "externalReferences"}
            \cup (IF lay.bomFormat # "absent" THEN {"bomFormat"} ELSE {})
            \cup (IF lay.specVersion = "ok" THEN {"specVersion"} ELSE {})
            \cup (IF lay.ident = "ok" THEN {"serialNumber", "version"} ELSE {})
        topVal(k) ==
            CASE k = "metadata" -> md
              [] k = "components" -> L(<<component>>)
              [] k = "externalReferences" -> refs
              [] k = "bomFormat" -> (IF lay.bomFormat = "ok" THEN S("CycloneDX") ELSE S(""))
              [] k = "specVersion" -> S("1.6")
              [] k = "serialNumber" -> S("urn:uuid:1")
              [] OTHER -> N(1)
    IN D([k \in topKeys |-> topVal(k)])

\* an ExtractionResult as the scorer reads it
Provenance(confidence) == [confidence |-> confidence]
ConfidenceLevels == {"high", "medium", "low", "none"}

\* the documents scored together with provenance: everything in place but
\* the two fields the provenance speaks about
ProvLayouts ==
    {lay \in Layouts :
        /\ lay.extras = "absent"
        /\ lay.bomFormat = "ok" /\ lay.specVersion = "ok" /\ lay.ident = "ok"
        /\ lay.name = "ok" /\ lay.typepurl = "ok" /\ lay.primaryPurpose = "ok"
        /\ lay.suppliedBy = "ok" /\ lay.downloadLocation = "ok"}
ProvMaps ==
    {D([f \in fs |-> Provenance(c)]) :
        fs \in {{"description"}, {"licenses"}, {"description", "licenses"}, {"author"}},
        c \in ConfidenceLevels}

ResolveIdle == rdoc = Idle /\ rpath = <<>> /\ rchunks = 0 /\ rres = Idle

\* the documents scored against catalogs 1 and 2, and against catalog 3:
\* with its extra fields, and no field empty or misplaced
NarrowLayouts == {lay \in Layouts : lay.extras = "absent"}
WideLayouts ==
    {lay \in Layouts :
        /\ lay.bomFormat # "empty" /\ lay.description # "empty" /\ lay.licenses # "empty"
        /\ lay.name # "component" /\ lay.specVersion = "ok"}

ScoreInit ==
    /\ \/ /\ reg \in {1, 2}
          /\ prov = NoProv
          /\ \E lay \in NarrowLayouts : aibom = BuildDoc(lay)
       \/ /\ reg = 3
          /\ prov = NoProv
          /\ \E lay \in WideLayouts : aibom = BuildDoc(lay)
       \/ /\ reg = 1
          /\ prov \in ProvMaps
          /\ \E lay \in ProvLayouts : aibom = BuildDoc(lay)
    /\ report = Idle
    /\ RescoreIdle
    /\ ResolveIdle
    /\ ExtractIdle
    /\ ServiceIdle
    /\ LimitIdle

\* score = calculate_completeness_score(aibom, validate=False, extraction_results=prov)
Score ==
    /\ report = Idle
    /\ \E fp \in FloatTies :
          report' = calculate_completeness_score(Registries[reg], aibom, prov, fp)
    /\ UNCHANGED <<reg, aibom, prov, layout, tie, previous, lastcall, rvars, evars, gvars, mvars>>

ScoreNext == Score

SpecScore == ScoreInit /\ [][ScoreNext]_vars

(***************************************************************************)
(* SpecRescore: a second call of calculate_completeness_score in the same  *)
(* process, on the same document or on one that carries more fields        *)
(***************************************************************************)
\* documents whose fields are each in place or missing, specVersion in place
PresenceLayouts ==
    {lay \in NarrowLayouts :
        lay.specVersion = "ok" /\ \A k \in DOMAIN lay : lay[k] \in {"absent", "ok"}}

RescoreInit ==
    /\ reg \in {1, 2, 4}
    /\ prov = NoProv
    /\ tie \in FloatTies
    /\ layout \in PresenceLayouts
    /\ aibom = BuildDoc(layout)
    /\ report = Idle
    /\ previous = Idle
    /\ lastcall = "none"
    /\ ResolveIdle
    /\ ExtractIdle
    /\ ServiceIdle
    /\ LimitIdle

\* the first call
ScoreFirst ==
    /\ report = Idle
    /\ report' = calculate_completeness_score(Registries[reg], aibom, prov, tie)
    /\ lastcall' = "first"
    /\ UNCHANGED <<reg, aibom, prov, layout, tie, previous, rvars, evars, gvars, mvars>>

\* the second call, on the same document
ScoreAgain ==
    /\ lastcall = "first"
    /\ previous' = report
    /\ report' = calculate_completeness_score(Registries[reg], aibom, prov, tie)
    /\ lastcall' = "again"
    /\ UNCHANGED <<reg, aibom, prov, layout, tie, rvars, evars, gvars, mvars>>

\* the second call, on the document with what `key` stands for put in place
ScoreLarger(key) ==
    /\ lastcall = "first"
    /\ layout[key] = "absent"
    /\ key # "extras"
    /\ layout' = [layout EXCEPT ![key] = "ok"]
    /\ aibom' = BuildDoc(layout')
    /\ previous' = report
    /\ report' = calculate_completeness_score(Registries[reg], aibom', prov, tie)
    /\ lastcall' = "larger"
    /\ UNCHANGED <<reg, prov, tie, rvars, evars, gvars, mvars>>

RescoreNext ==
    \/ ScoreFirst
    \/ ScoreAgain
    \/ \E key \in DOMAIN layout : ScoreLarger(key)

SpecRescore == RescoreInit /\ [][RescoreNext]_vars

(***************************************************************************)
(* Extraction engine: extractor.py                                         *)
(***************************************************************************)
\* an attribute or key that is not there
Absent == [t |-> "absent", v |-> "absent"]
\* an object or dict holding the attributes of r that are there
Obj(r) == D([k \in {k \in DOMAIN r : r[k] # Absent} |-> r[k]])
\* getattr(obj, name, default) / dict.get(name, default)
GetAttr(obj, name, default) == IF HasKey(obj, name) THEN obj.v[name] ELSE default

\* str.lower() over the strings of the model
PyLower(s) ==
    CASE s = "MIT" -> "mit"
      [] s = "Other" -> "other"
      [] s = "Unknown" -> "unknown"
      [] s = "BERT" -> "bert"
      [] s = "Apache" -> "apache"
      [] s = "Apache License 2.0" -> "apache license 2.0"
      [] OTHER -> s

\* str.split('/') over the identifiers of the model
SplitSlash(s) ==
    CASE s = "acme/bert" -> <<"acme", "bert">>
      [] s = "acme/models/bert" -> <<"acme", "models", "bert">>
      [] s = "acme/my model" -> <<"acme", "my model">>
      [] OTHER -> <<s>>
HasSlash(s) == Len(SplitSlash(s)) > 1

\* the registry of the extractor: self.registry_fields in dict order, with
\* the fallback_value of the field's configuration (Absent when not configured)
ExtractionFields ==
    <<"name", "suppliedBy", "license", "description", "datasets", "model_type",
      "pipeline_tag", "vocab_size", "external_references">>
FieldConfig(field_name) ==
    Obj([tier |-> S("important"),
         fallback_value |-> IF field_name = "pipeline_tag" THEN S("unspecified") ELSE Absent])

\* DataSource and ConfidenceLevel (schemas.py)
DataSource ==
    [HF_API |-> "huggingface_api", MODEL_CARD |-> "model_card_yaml",
     README_TEXT |-> "readme_text", CONFIG_FILE |-> "config_file",
     REPOSITORY_FILES |-> "repository_files", EXTERNAL_REFERENCE |-> "external_reference",
     INTELLIGENT_DEFAULT |-> "intelligent_default", PLACEHOLDER |-> "placeholder",
     REGISTRY_DRIVEN |-> "registry_driven"]
ConfidenceLevel == [HIGH |-> "high", MEDIUM |-> "medium", LOW |-> "low", NONE |-> "none"]

ExtractionResult(value, source, confidence, extraction_method) ==
    [value |-> value, source |-> source, confidence |-> confidence,
     extraction_method |-> extraction_method]

\* what a strategy call does: return a value (None included), raise and catch
\* inside itself (then it returns None), or raise to its caller
Returns(x) == [exc |-> FALSE, caught |-> FALSE, value |-> x]
CaughtInside == [exc |-> FALSE, caught |-> TRUE, value |-> Null]
RaisesOut == [exc |-> TRUE, caught |-> FALSE, value |-> Null]

\* str_val of the sentinel filters: str(val).lower(), of val[0] for a list
SentinelKey(val) ==
    IF IsList(val) /\ Len(val.v) > 0 THEN PyLower(PyStr(val.v[1])) ELSE PyLower(PyStr(val))
ignored_values == {"other", "['other']", "other license", "other-license", "unknown"}

\* _try_api_extraction
ApiListFields == {"datasets", "tags", "external_references", "paper"}
ApiMapped == {"name", "suppliedBy", "license", "datasets", "pipeline_tag"}
card_data_of(info) ==
    IF HasKey(info, "card_data") /\ Truthy(info.v["card_data"]) THEN info.v["card_data"] ELSE Null
api_mappings(field_name, info, model_id) ==
    CASE field_name = "name" ->
             LET mid == GetAttr(info, "modelId", S(model_id))
             IN IF IsStr(mid) THEN Returns(S(SplitSlash(mid.v)[Len(SplitSlash(mid.v))]))
                ELSE RaisesOut                       \* None.split: AttributeError
      [] field_name = "suppliedBy" ->
             LET author == GetAttr(info, "author", Null)
             IN IF Truthy(author) THEN Returns(author)
                ELSE Returns(S(SplitSlash(model_id)[1]))
      [] field_name = "license" ->
             IF IsNull(card_data_of(info)) THEN Returns(Null)
             ELSE Returns(GetAttr(card_data_of(info), "license", Null))
      [] field_name = "datasets" ->
             IF IsNull(card_data_of(info)) THEN Returns(L(<<>>))
             ELSE Returns(GetAttr(card_data_of(info), "datasets", L(<<>>)))
      [] OTHER -> Returns(GetAttr(info, "pipeline_tag", Null))
_try_api_extraction(field_name, context) ==
    LET model_info == context.model_info IN
    IF ~Truthy(model_info) THEN Returns(Null)
    ELSE IF field_name \in ApiMapped
         THEN LET got == api_mappings(field_name, model_info, context.model_id)
                  val == got.value
              IN IF got.exc THEN CaughtInside
                 ELSE IF Truthy(val)
                      THEN IF field_name \in ApiListFields THEN Returns(val)
                           ELSE IF SentinelKey(val) \notin ignored_values THEN Returns(val)
                           ELSE Returns(Null)
                      ELSE Returns(Null)
         ELSE Returns(Null)

\* _try_model_card_extraction
CardSingle == {"license", "language", "library_name", "base_model", "datasets",
               "typeOfModel", "licenses"}
card_key(field_name) ==
    CASE field_name = "typeOfModel" -> "model_type"
      [] field_name = "licenses" -> "license"
      [] OTHER -> field_name
DirectLookup(card_data, field_name) ==
    LET val == Get(card_data, field_name)
    IN IF Truthy(val) THEN (IF SentinelKey(val) # "other" THEN Returns(val) ELSE Returns(Null))
       ELSE Returns(Null)
_try_model_card_extraction(field_name, context) ==
    LET model_card == context.model_card IN
    IF IsNull(model_card) \/ ~HasKey(model_card, "data") \/ ~Truthy(model_card.v["data"])
    THEN Returns(Null)
    ELSE LET card_data == model_card.v["data"] IN
         IF field_name = "description"
         THEN IF Truthy(Get(card_data, "model_summary")) THEN Returns(card_data.v["model_summary"])
              ELSE IF Truthy(Get(card_data, "description")) THEN Returns(card_data.v["description"])
              ELSE DirectLookup(card_data, field_name)
         ELSE IF field_name \in CardSingle
              THEN LET val == Get(card_data, card_key(field_name))
                   IN IF Truthy(val)
                      THEN (IF SentinelKey(val) \notin ignored_values
                            THEN Returns(val) ELSE Returns(Null))
                      ELSE Returns(Null)
              ELSE DirectLookup(card_data, field_name)

\* _try_config_extraction: no except clause, so config_source.get raises to
\* the caller when the parsed JSON is not an object
ConfigMapped == {"model_type", "architectures", "vocab_size", "tokenizer_class", "typeOfModel"}
config_mappings(field_name) ==
    CASE field_name = "tokenizer_class" -> <<"tokenizer_config", "tokenizer_class">>
      [] field_name = "typeOfModel" -> <<"config_data", "model_type">>
      [] OTHER -> <<"config_data", field_name>>
_try_config_extraction(field_name, context) ==
    IF field_name \in ConfigMapped
    THEN LET config_source == context[config_mappings(field_name)[1]]
             config_key == config_mappings(field_name)[2]
         IN IF Truthy(config_source)
            THEN (IF IsDict(config_source) THEN Returns(Get(config_source, config_key))
                  ELSE RaisesOut)
            ELSE Returns(Null)
    ELSE Returns(Null)

\* README text, seen through the patterns: for each pattern category the
\* whitespace-normalised group(1) of every pattern that matches, in pattern order
Readme(captures) == [t |-> "text", v |-> captures]
NoCaptures == [license |-> <<>>, datasets |-> <<>>, model_type |-> <<>>]

\* the lists list(set(matches)) can be: every order of the distinct matches
Orders(set) ==
    {m \in [1..Cardinality(set) -> set] : \A i, j \in 1..Cardinality(set) : m[i] = m[j] => i = j}

\* _find_pattern_matches
text_ignored_values == {"the", "other", "other license", "other-license", "unknown"}
_find_pattern_matches(content, pattern_key) ==
    LET matches == SelectSeq(content.v[pattern_key],
                             LAMBDA val : PyLower(val) \notin text_ignored_values)
    IN Orders(SeqToSet(matches))

\* matches[0] in the place of max(matches, key=len)
FirstOfMatches(matches) == matches[1]
\* max(matches, key=len): the first longest element
MaxByLen(matches) ==
    matches[CHOOSE i \in 1..Len(matches) :
                /\ \A j \in 1..Len(matches) : Len(matches[j]) <= Len(matches[i])
                /\ \A j \in 1..(i - 1) : Len(matches[j]) < Len(matches[i])]

\* _try_text_pattern_extraction: the values it can return
PatternMapped == {"license", "licenses", "datasets", "model_type"}
pattern_mappings(field_name) == IF field_name = "licenses" THEN "license" ELSE field_name
_try_text_pattern_extraction(field_name, context) ==
    LET readme_content == context.readme_content IN
    IF ~Truthy(readme_content) \/ field_name \notin PatternMapped THEN {Returns(Null)}
    ELSE {IF Len(matches) = 0 THEN Returns(Null)
          ELSE IF field_name \in {"license", "licenses"} THEN Returns(S(MaxByLen(matches)))
          ELSE IF field_name = "model_type" THEN Returns(S(matches[1]))
          ELSE IF Len(matches) = 1 THEN Returns(S(matches[1]))
          ELSE Returns(L([i \in 1..Len(matches) |-> S(matches[i])])) :
             matches \in _find_pattern_matches(readme_content, pattern_mappings(field_name))}

\* _try_intelligent_inference
_try_intelligent_inference(field_name, context) ==
    LET model_id == context.model_id IN
    CASE field_name \in {"author", "suppliedBy"} ->
             Returns(S(IF HasSlash(model_id) THEN SplitSlash(model_id)[1] ELSE "unknown"))
      [] field_name = "name" -> Returns(S(SplitSlash(model_id)[Len(SplitSlash(model_id))]))
      [] OTHER -> Returns(Null)

\* _detect_license_from_file, as the repository answers it
_detect_license_from_file(context) == Returns(context.repo_license)

\* the enrichment flag taken as always set
SummarizationAlways(context) == TRUE
\* context.get('enable_summarization', False)
SummarizationEnabled(context) == context.enable_summarization
\* LocalSummarizer.summarize on the cleaned README, as the summarizer answers it
Summarize(context) ==
    IF context.summary.t = "raises" THEN CaughtInside ELSE Returns(context.summary)

\* _try_fallback_value
standard_fallbacks(field_name) ==
    CASE field_name = "license" -> S("NOASSERTION")
      [] field_name = "description" -> S("No description available")
      [] field_name = "version" -> S("1.0.0")
      [] field_name = "bomFormat" -> S("CycloneDX")
      [] field_name = "specVersion" -> S("1.6")
      [] OTHER -> Null
_try_fallback_value(field_name, field_config) ==
    IF IsDict(field_config) /\ Truthy(Get(field_config, "fallback_value"))
    THEN Returns(field_config.v["fallback_value"])
    ELSE Returns(standard_fallbacks(field_name))

\* _generate_external_references
Reference(type, url) == D([type |-> S(type), url |-> S(url)])
RECURSIVE DatasetReferences(_)
DatasetReferences(datasets) ==
    IF Len(datasets) = 0 THEN <<>>
    ELSE (IF IsStr(Head(datasets))
          THEN <<Reference("distribution",
                           "https://huggingface.co/datasets/" \o Head(datasets).v)>>
          ELSE <<>>) \o DatasetReferences(Tail(datasets))
_generate_external_references(model_id, md) ==
    LET repo_url == "https://huggingface.co/" \o model_id
    IN L(<<Reference("website", repo_url), Reference("distribution", repo_url \o "/tree/main")>>
         \o (IF "commit" \in DOMAIN md
             THEN <<Reference("vcs", repo_url \o "/commit/" \o PyStr(md["commit"]))>> ELSE <<>>)
         \o (IF "datasets" \in DOMAIN md /\ IsList(md["datasets"])
             THEN DatasetReferences(md["datasets"].v) ELSE <<>>))

\* dict[key] = value
Put(dict, key, value) == [k \in DOMAIN dict \cup {key} |-> IF k = key THEN value ELSE dict[k]]

(***************************************************************************)
(* Spec: extraction runs of one EnhancedExtractor                          *)
(***************************************************************************)
MaxRuns == 2

\* the inputs of a run that are the same in every family below
ModelInfo(attrs) ==
    Obj([modelId |-> attrs.modelId, author |-> attrs.author,
         pipeline_tag |-> attrs.pipeline_tag, sha |-> attrs.sha,
         card_data |-> attrs.card_data])
BaseInfoAttrs ==
    [modelId |-> S("acme/bert"), author |-> S("acme"), pipeline_tag |-> S("fill-mask"),
     sha |-> S("0123456789abcdef"), card_data |-> Absent]
ModelCard(data) == Obj([data |-> data])
BaseContext ==
    [model_id |-> "acme/bert",
     model_info |-> ModelInfo(BaseInfoAttrs),
     model_card |-> Null,
     readme_content |-> Null,
     config_data |-> Null,
     tokenizer_config |-> Null,
     enable_summarization |-> FALSE,
     repo_license |-> Null,
     summary |-> Null]

\* BaseContext with some entries replaced
With(base, changes) ==
    [k \in DOMAIN base |-> IF k \in DOMAIN changes THEN changes[k] ELSE base[k]]

\* runs that differ in what decides name and suppliedBy
IdentityContexts ==
    {With(BaseContext, [model_id |-> model_id, model_info |-> model_info, model_card |-> card]) :
        model_id \in {"acme/bert", "bert"},
        model_info \in {Null}
            \cup {ModelInfo(With(BaseInfoAttrs, [modelId |-> mid, author |-> author, sha |-> sha])) :
                    mid \in {Absent, Null, S("acme/models/bert")},
                    author \in {Absent, S("acme")},
                    sha \in {Null, S("0123456789abcdef")}},
        card \in {Null, ModelCard(Obj([name |-> S("Other"), suppliedBy |-> S("unknown")])),
                  ModelCard(Obj([name |-> S("bert-base")]))}}

\* runs that differ in what decides license
LicenseContexts ==
    {With(BaseContext,
          [model_info |-> ModelInfo(With(BaseInfoAttrs, [card_data |-> api])),
           model_card |-> card, readme_content |-> readme, repo_license |-> repo]) :
        api \in {Absent, Null, Obj([license |-> S("mit")]), Obj([license |-> S("Other")]),
                 Obj([license |-> S("unknown")]), Obj([license |-> L(<<S("other")>>)]),
                 Obj([license |-> L(<<S("mit"), S("other")>>)])},
        card \in {Null, ModelCard(Obj([license |-> S("apache-2.0")])),
                  ModelCard(Obj([license |-> S("Unknown")])),
                  ModelCard(Obj([license |-> L(<<S("Other")>>)]))},
        readme \in {Null, S(""), Readme(NoCaptures),
                    Readme(With(NoCaptures, [license |-> <<"the", "Apache", "Apache License 2.0">>])),
                    Readme(With(NoCaptures, [license |-> <<"MIT", "MIT">>])),
                    Readme(With(NoCaptures, [license |-> <<"Other">>]))},
        repo \in {Null, S("MIT")}}

\* runs that differ in what decides description
DescriptionContexts ==
    {With(BaseContext,
          [model_card |-> card, readme_content |-> readme,
           enable_summarization |-> enable, summary |-> summary]) :
        card \in {Null, ModelCard(EmptyDict)}
            \cup {ModelCard(Obj([model_summary |-> ms, description |-> ds])) :
                    ms \in {Absent, S(""), S("other"), S("A BERT model")},
                    ds \in {Absent, S("Unknown"), S("BERT for English")}},
        readme \in {Null, Readme(NoCaptures)},
        enable \in BOOLEAN,
        summary \in {Null, S(""), S("BERT is a language model"), [t |-> "raises", v |-> "error"]}}

\* runs that differ in what decides datasets
DatasetContexts ==
    {With(BaseContext,
          [model_info |-> ModelInfo(With(BaseInfoAttrs, [card_data |-> api])),
           model_card |-> card, readme_content |-> readme]) :
        api \in {Absent, Obj([license |-> S("mit")]), Obj([datasets |-> L(<<>>)]),
                 Obj([datasets |-> L(<<S("other")>>)]),
                 Obj([datasets |-> L(<<S("squad"), S("glue")>>)])},
        card \in {Null, ModelCard(Obj([datasets |-> L(<<S("unknown")>>)])),
                  ModelCard(Obj([datasets |-> L(<<S("squad")>>)])),
                  ModelCard(Obj([datasets |-> S("other")]))},
        readme \in {Null, Readme(With(NoCaptures, [datasets |-> <<"squad">>])),
                    Readme(With(NoCaptures, [datasets |-> <<"squad", "glue">>])),
                    Readme(With(NoCaptures, [datasets |-> <<"glue", "Unknown", "glue">>]))}}

\* runs that differ in what decides model_type and vocab_size: config.json
\* parses to None (missing or invalid), an object, or another JSON value
ConfigContexts ==
    {With(BaseContext, [config_data |-> config, readme_content |-> readme]) :
        config \in {Null, EmptyDict, D([model_type |-> S("bert"), vocab_size |-> N(30522)]),
                    D([model_type |-> S("unknown")]), D([vocab_size |-> N(0)]),
                    L(<<S("bert")>>), L(<<>>), S("bert")},
        readme \in {Null, Readme(With(NoCaptures, [model_type |-> <<"bert">>])),
                    Readme(With(NoCaptures, [model_type |-> <<"BERT", "roberta">>]))}}

\* runs that differ in what decides pipeline_tag
PipelineContexts ==
    {With(BaseContext,
          [model_info |-> ModelInfo(With(BaseInfoAttrs, [pipeline_tag |-> api])),
           model_card |-> card]) :
        api \in {Absent, Null, S("Other"), S("fill-mask")},
        card \in {Null, ModelCard(Obj([pipeline_tag |-> S("unknown")])),
                  ModelCard(Obj([pipeline_tag |-> S("other")])),
                  ModelCard(Obj([pipeline_tag |-> S("text-classification")]))}}

Contexts ==
    IdentityContexts \cup LicenseContexts \cup DescriptionContexts \cup DatasetContexts
    \cup ConfigContexts \cup PipelineContexts

\* the records _extract_registry_field writes (extractor.py 259-370)
ApiResult(value) ==
    ExtractionResult(value, DataSource.HF_API, ConfidenceLevel.HIGH, "api_direct")
ModelCardResult(value) ==
    ExtractionResult(value, DataSource.MODEL_CARD, ConfidenceLevel.HIGH, "model_card_yaml")
ConfigResult(value) ==
    ExtractionResult(value, DataSource.CONFIG_FILE, ConfidenceLevel.HIGH, "config_file")
TextPatternResultHigh(value) ==
    ExtractionResult(value, DataSource.README_TEXT, ConfidenceLevel.HIGH, "text_pattern")
TextPatternResult(value) ==
    ExtractionResult(value, DataSource.README_TEXT, ConfidenceLevel.MEDIUM, "text_pattern")
InferenceResult(value) ==
    ExtractionResult(value, DataSource.INTELLIGENT_DEFAULT, ConfidenceLevel.MEDIUM,
                     "intelligent_inference")
LicenseFileResult(value) ==
    ExtractionResult(value, DataSource.REPOSITORY_FILES, ConfidenceLevel.MEDIUM, "license_file")
SummarizationResult(value) ==
    ExtractionResult(value, DataSource.INTELLIGENT_DEFAULT, ConfidenceLevel.MEDIUM,
                     "llm_summarization")
FallbackResult(value) ==
    ExtractionResult(value, DataSource.PLACEHOLDER, ConfidenceLevel.NONE, "fallback_placeholder")
NoExtractionResultLow ==
    ExtractionResult(S(""), DataSource.PLACEHOLDER, ConfidenceLevel.LOW, "extraction_failed")
NoExtractionResult ==
    ExtractionResult(Null, DataSource.PLACEHOLDER, ConfidenceLevel.NONE, "extraction_failed")

\* the order of the strategies in _extract_registry_field, with card and
\* config exchanged
StrategyAfterConfigFirst(strategy) ==
    CASE strategy = "api_direct" -> "config_file"
      [] strategy = "config_file" -> "model_card_yaml"
      [] strategy = "model_card_yaml" -> "text_pattern"
      [] strategy = "text_pattern" -> "intelligent_inference"
      [] strategy = "intelligent_inference" -> "license_file"
      [] strategy = "license_file" -> "llm_summarization"
      [] strategy = "llm_summarization" -> "fallback_placeholder"
      [] OTHER -> "extraction_failed"

\* the order of the strategies in _extract_registry_field: where control goes
\* when `strategy` gave no value
StrategyAfter(strategy) ==
    CASE strategy = "api_direct" -> "model_card_yaml"
      [] strategy = "model_card_yaml" -> "config_file"
      [] strategy = "config_file" -> "text_pattern"
      [] strategy = "text_pattern" -> "intelligent_inference"
      [] strategy = "intelligent_inference" -> "license_file"
      [] strategy = "license_file" -> "llm_summarization"
      [] strategy = "llm_summarization" -> "fallback_placeholder"
      [] OTHER -> "extraction_failed"

field_name == ExtractionFields[fidx]
Call(strategy, outcome) == [strategy |-> strategy, outcome |-> outcome]

\* the strategy gave a value: record it, return it, metadata[field_name] = it
Accept(strategy, result) ==
    /\ calls' = Append(calls, Call(strategy, "value"))
    /\ extraction_results' = Put(extraction_results, field_name, result)
    /\ metadata' = Put(metadata, field_name, result.value)
    /\ epc' = "next"
    /\ UNCHANGED aborted
\* the strategy gave nothing: on to the next one
Defer(strategy, outcome) ==
    /\ calls' = Append(calls, Call(strategy, outcome))
    /\ epc' = StrategyAfter(strategy)
    /\ UNCHANGED <<extraction_results, metadata, aborted>>
\* the strategy does not apply to this field
Skip(strategy) ==
    /\ epc' = StrategyAfter(strategy)
    /\ UNCHANGED <<calls, extraction_results, metadata, aborted>>
\* the strategy raised: the except clause of the field loop (extractor.py 228-231)
Abort(strategy) ==
    /\ calls' = Append(calls, Call(strategy, "raised"))
    /\ aborted' = aborted \cup {field_name}
    /\ epc' = "next"
    /\ UNCHANGED <<extraction_results, metadata>>
\* a call that returned: accept a value that is not None
Settle(strategy, r, result) ==
    IF r.exc THEN Abort(strategy)
    ELSE IF ~IsNull(r.value) THEN Accept(strategy, result)
    ELSE Defer(strategy, IF r.caught THEN "caught" ELSE "none")

Init ==
    /\ ctx = Idle
    /\ extraction_results = <<>>
    /\ metadata = <<>>
    /\ epc = "idle"
    /\ fidx = 0
    /\ calls = <<>>
    /\ aborted = {}
    /\ runs = 0
    /\ ResolveIdle
    /\ ScoreIdle
    /\ ServiceIdle
    /\ LimitIdle

\* extract_metadata is called: the provenance map is reset and the context built
StartRun(context) ==
    /\ epc \in {"idle", "returned"}
    /\ runs < MaxRuns
    /\ runs' = runs + 1
    /\ ctx' = context
    /\ extraction_results' = <<>>
    /\ metadata' = <<>>
    /\ fidx' = 0
    /\ calls' = <<>>
    /\ aborted' = {}
    /\ epc' = "next"
    /\ UNCHANGED <<rvars, svars, gvars, mvars>>

\* the field loop takes the next field of the registry
NextField ==
    /\ epc = "next"
    /\ fidx < Len(ExtractionFields)
    /\ fidx' = fidx + 1
    /\ calls' = <<>>
    /\ epc' = "api_direct"
    /\ UNCHANGED <<ctx, extraction_results, metadata, aborted, runs, rvars, svars, gvars, mvars>>

TryApi ==
    /\ epc = "api_direct"
    /\ LET r == _try_api_extraction(field_name, ctx)
       IN Settle("api_direct", r, ApiResult(r.value))
    /\ UNCHANGED <<ctx, fidx, runs, rvars, svars, gvars, mvars>>

TryModelCard ==
    /\ epc = "model_card_yaml"
    /\ LET r == _try_model_card_extraction(field_name, ctx)
       IN Settle("model_card_yaml", r, ModelCardResult(r.value))
    /\ UNCHANGED <<ctx, fidx, runs, rvars, svars, gvars, mvars>>

TryConfig ==
    /\ epc = "config_file"
    /\ LET r == _try_config_extraction(field_name, ctx)
       IN Settle("config_file", r, ConfigResult(r.value))
    /\ UNCHANGED <<ctx, fidx, runs, rvars, svars, gvars, mvars>>

TryTextPattern ==
    /\ epc = "text_pattern"
    /\ \E r \in _try_text_pattern_extraction(field_name, ctx) :
          Settle("text_pattern", r, TextPatternResult(r.value))
    /\ UNCHANGED <<ctx, fidx, runs, rvars, svars, gvars, mvars>>

TryInference ==
    /\ epc = "intelligent_inference"
    /\ LET r == _try_intelligent_inference(field_name, ctx)
       IN Settle("intelligent_inference", r, InferenceResult(r.value))
    /\ UNCHANGED <<ctx, fidx, runs, rvars, svars, gvars, mvars>>

TryLicenseFile ==
    /\ epc = "license_file"
    /\ IF field_name \in {"license", "licenses"}
       THEN LET detected == _detect_license_from_file(ctx).value
            IN IF Truthy(detected) THEN Accept("license_file", LicenseFileResult(detected))
               ELSE Defer("license_file", "none")
       ELSE Skip("license_file")
    /\ UNCHANGED <<ctx, fidx, runs, rvars, svars, gvars, mvars>>

TrySummarization ==
    /\ epc = "llm_summarization"
    /\ IF field_name = "description" /\ SummarizationEnabled(ctx) /\ Truthy(ctx.readme_content)
       THEN LET r == Summarize(ctx)
            IN IF Truthy(r.value) THEN Accept("llm_summarization", SummarizationResult(r.value))
               ELSE Defer("llm_summarization", IF r.caught THEN "caught" ELSE "none")
       ELSE Skip("llm_summarization")
    /\ UNCHANGED <<ctx, fidx, runs, rvars, svars, gvars, mvars>>

TryFallback ==
    /\ epc = "fallback_placeholder"
    /\ LET r == _try_fallback_value(field_name, FieldConfig(field_name))
       IN Settle("fallback_placeholder", r, FallbackResult(r.value))
    /\ UNCHANGED <<ctx, fidx, runs, rvars, svars, gvars, mvars>>

\* no extraction successful: the unresolved record, and None is returned
NoExtraction ==
    /\ epc = "extraction_failed"
    /\ extraction_results' = Put(extraction_results, field_name, NoExtractionResult)
    /\ epc' = "next"
    /\ UNCHANGED <<ctx, metadata, fidx, calls, aborted, runs, rvars, svars, gvars, mvars>>

\* after the loop: commit from the API record, the external references, and
\* extract_metadata's filter of None values
FinishRun ==
    /\ epc = "next"
    /\ fidx = Len(ExtractionFields)
    /\ LET commit_sha == GetAttr(ctx.model_info, "sha", Null)
           with_commit == IF "commit" \notin DOMAIN metadata /\ Truthy(commit_sha)
                          THEN Put(metadata, "commit", commit_sha) ELSE metadata
           updated == Put(with_commit, "external_references",
                          _generate_external_references(ctx.model_id, with_commit))
       IN metadata' = [k \in {k \in DOMAIN updated : ~IsNull(updated[k])} |-> updated[k]]
    /\ epc' = "returned"
    /\ UNCHANGED <<ctx, extraction_results, fidx, calls, aborted, runs, rvars, svars, gvars, mvars>>

Next ==
    \/ \E context \in Contexts : StartRun(context)
    \/ NextField
    \/ TryApi
    \/ TryModelCard
    \/ TryConfig
    \/ TryTextPattern
    \/ TryInference
    \/ TryLicenseFile
    \/ TrySummarization
    \/ TryFallback
    \/ NoExtraction
    \/ FinishRun

Spec == Init /\ [][Next]_vars

(***************************************************************************)
(* Service: service.py and utils/validation.py.  A generate_aibom call is  *)
(* one step; the timestamp, the serial number and the sections of the      *)
(* component that do not depend on the identifier or the commit are left   *)
(* out of the assembled document.                                          *)
(***************************************************************************)
\* urllib.parse.quote with its default safe characters: "/" is kept
Quote(s) == CASE s = "my model" -> "my%20model" [] OTHER -> s
\* full_commit[:8] over the commit hashes of the model
First8(s) == CASE s = "0123456789abcdef" -> "01234567" [] OTHER -> s
\* sep.join(parts)
RECURSIVE JoinWith(_, _)
JoinWith(parts, sep) ==
    IF Len(parts) = 1 THEN parts[1] ELSE parts[1] \o sep \o JoinWith(Tail(parts), sep)

\* _normalise_model_id: a URL is cut to the first two segments of its path
_normalise_model_id(raw_id) ==
    CASE raw_id = "https://huggingface.co/acme/bert" -> "acme/bert"
      [] raw_id = "https://huggingface.co/acme/models/bert" -> "acme/models"
      [] OTHER -> raw_id

\* _generate_hf_purl
_generate_hf_purl(model_id, version) ==
    LET parts == SplitSlash(model_id)
    IN "pkg:huggingface/"
       \o (IF Len(parts) > 1 THEN Quote(parts[1]) \o "/" \o Quote(JoinWith(Tail(parts), "/"))
           ELSE Quote(model_id))
       \o "@" \o version

\* version = full_commit[:8] if full_commit else "1.0"; slicing a commit
\* that is no string raises
CommitRaises(md) == "commit" \in DOMAIN md /\ Truthy(md["commit"]) /\ ~IsStr(md["commit"])
VersionOf(md) ==
    IF "commit" \in DOMAIN md /\ Truthy(md["commit"]) THEN First8(md["commit"].v) ELSE "1.0"

\* _create_component_section: bom-ref, type, group, name, version, purl
_create_component_section(model_id, md) ==
    LET parts == SplitSlash(model_id)
        group == IF Len(parts) > 1 THEN parts[1] ELSE ""
        name == IF Len(parts) > 1 THEN parts[2] ELSE parts[1]
        version == VersionOf(md)
        purl_path == IF group # "" THEN Quote(group) \o "/" \o Quote(name) ELSE Quote(name)
        purl == "pkg:huggingface/" \o purl_path \o "@" \o version
    IN [bom_ref |-> purl, type |-> "machine-learning-model", group |-> group, name |-> name,
        version |-> version, purl |-> purl]

\* _create_aibom_structure
_create_aibom_structure(model_id, md, spec_version) ==
    LET version == VersionOf(md)
    IN [bomFormat |-> "CycloneDX",
        specVersion |-> spec_version,
        components |-> <<_create_component_section(model_id, md)>>,
        dependencies |->
            <<[ref |-> "pkg:generic/" \o JoinWith(SplitSlash(model_id), "%2F") \o "@" \o version,
               dependsOn |-> <<_generate_hf_purl(model_id, version)>>]>>]

\* _create_minimal_aibom
_create_minimal_aibom(model_id, spec_version) ==
    LET hf_purl == _generate_hf_purl(model_id, "1.0")
        parts == SplitSlash(model_id)
    IN [bomFormat |-> "CycloneDX",
        specVersion |-> spec_version,
        components |-> <<[bom_ref |-> hf_purl, type |-> "machine-learning-model",
                          name |-> parts[Len(parts)], version |-> "1.0", purl |-> hf_purl]>>]

\* validate_aibom (utils/validation.py): `schema` is what load_schema gave,
\* `errors` the formatted errors the validator finds in the document
validate_aibom(schema, errors) ==
    IF IsNull(schema) THEN <<TRUE, <<"Schema unavailable">> >>
    ELSE IF Len(errors) = 0 THEN <<TRUE, <<>> >>
    ELSE <<FALSE, errors>>

\* the provenance the extractor of one call leaves: here the record of name
\* as inferred from the identifier (Spec models the whole map)
ProvenanceOf(model_id) ==
    [name |-> InferenceResult(S(SplitSlash(model_id)[Len(SplitSlash(model_id))]))]
\* calculate_completeness_score(aibom, validate=True, extraction_results):
\* the report of the document it is given (SpecScore models its content)
ScoreOf(document, extraction) == [document |-> document, extraction_results |-> extraction]

\* the report generate_aibom stores (service.py 117-128)
EnhancementReport(original_score, final_score, checked) ==
    [ai_enhanced |-> FALSE, ai_model |-> Null,
     original_score |-> original_score, final_score |-> final_score, improvement |-> 0,
     schema_validation |->
        [valid |-> checked[1], error_count |-> Len(checked[2]),
         errors |-> IF checked[1] THEN <<>> ELSE checked[2]]]

(***************************************************************************)
(* SpecService: generate_aibom calls on one AIBOMService                   *)
(***************************************************************************)
RawIds ==
    {"bert", "acme/bert", "acme/models/bert", "acme/my model", "https://huggingface.co/acme/bert"}
\* the metadata the extractor returns, as far as the assembly reads it
Commits == {Absent, S(""), S("0123456789abcdef"), S("abc123"), N(7)}
MetadataOf(commit) ==
    IF commit = Absent THEN [name |-> S("bert")] ELSE [name |-> S("bert"), commit |-> commit]
\* the error lists of the schema validator
ErrorLists == {<<>>, <<"[root] 'x' is a required property">>,
               <<"[components -> 0] e1", "[metadata] e2">>}
LoadedSchema == D([title |-> S("CycloneDX 1.6")])

ServiceInit ==
    /\ enhancement_report = Null
    /\ service_results = <<>>
    /\ _cached_schema \in {Null, LoadedSchema}
    /\ returned = Idle
    /\ generation = Idle
    /\ validation = <<>>
    /\ ResolveIdle
    /\ ScoreIdle
    /\ ExtractIdle
    /\ LimitIdle

\* generate_aibom(raw_id): `extracted` is whether _extract_metadata returned
\* (an exception of the extractor or of a fetch otherwise), `commit` the
\* commit of the metadata, `schema` what load_schema gives when nothing is
\* cached, `errors` the validator's findings
generate_aibom(raw_id, extracted, commit, schema, errors) ==
    LET model_id == _normalise_model_id(raw_id)
        md == MetadataOf(commit)
        results == IF extracted THEN ProvenanceOf(model_id) ELSE service_results
        failed == ~extracted \/ CommitRaises(md)
        loaded == IF ~IsNull(_cached_schema) THEN _cached_schema ELSE schema
        final == _create_aibom_structure(model_id, md, "1.6")
        checked == validate_aibom(loaded, errors)
    IN /\ service_results' = results
       /\ IF failed
          THEN /\ returned' = _create_minimal_aibom(model_id, "1.6")
               /\ generation' = [model_id |-> model_id, outcome |-> "minimal"]
               /\ UNCHANGED <<enhancement_report, _cached_schema, validation>>
          ELSE /\ returned' = final
               /\ generation' = [model_id |-> model_id, outcome |-> "full", commit |-> commit]
               /\ _cached_schema' = loaded
               /\ validation' = checked
               /\ enhancement_report' =
                     EnhancementReport(ScoreOf(final, results), ScoreOf(final, results), checked)
       /\ UNCHANGED <<rvars, svars, evars, mvars>>

\* get_validation_summary(aibom) on the document last returned
get_validation_summary(schema, errors) ==
    LET loaded == IF ~IsNull(_cached_schema) THEN _cached_schema ELSE schema
    IN /\ returned # Idle
       /\ _cached_schema' = loaded
       /\ validation' = validate_aibom(loaded, errors)
       /\ UNCHANGED <<enhancement_report, service_results, returned, generation>>
       /\ UNCHANGED <<rvars, svars, evars, mvars>>

ServiceNext ==
    \/ \E raw_id \in RawIds, extracted \in BOOLEAN, commit \in Commits,
          schema \in {Null, LoadedSchema}, errors \in ErrorLists :
           generate_aibom(raw_id, extracted, commit, schema, errors)
    \/ \E schema \in {Null, LoadedSchema}, errors \in ErrorLists :
           get_validation_summary(schema, errors)

SpecService == ServiceInit /\ [][ServiceNext]_vars

(***************************************************************************)
(* SpecLimit: ConcurrencyLimitMiddleware.dispatch (utils/rate_limiting.py) *)
(* under concurrent requests.  A coroutine runs without interruption from  *)
(* one await to the next, so each action is the code between two awaits.   *)
(* asyncio.Semaphore and asyncio.wait_for behave as documented: an         *)
(* acquire that is timed out or cancelled takes no permit.                 *)
(***************************************************************************)
MaxRequests == 3
Requests == 1 .. MaxRequests
\* the constructor's max_concurrent_requests (5 by default)
max_concurrent_requests == 2

\* the finally clause that gives the permit back whether or not one is held
ReleasedAlways(held, value) == value + 1
\* finally: if acquired: self.semaphore.release()
Released(held, value) == IF held THEN value + 1 ELSE value

LimitInit ==
    /\ semaphore = max_concurrent_requests
    /\ mpc = [r \in Requests |-> "new"]
    /\ acquired = [r \in Requests |-> FALSE]
    /\ status = [r \in Requests |-> 0]
    /\ ResolveIdle
    /\ ScoreIdle
    /\ ExtractIdle
    /\ ServiceIdle

\* dispatch up to its first await: a protected route sets acquired = False and
\* waits for the semaphore, any other route goes to the handler at once
Dispatch(r, protected) ==
    /\ mpc[r] = "new"
    /\ mpc' = [mpc EXCEPT ![r] = IF protected THEN "waiting" ELSE "passing"]
    /\ UNCHANGED <<semaphore, acquired, status>>
    /\ UNCHANGED <<rvars, svars, evars, gvars>>

\* wait_for(self.semaphore.acquire()) returns: acquired = True, call_next starts
Acquire(r) ==
    /\ mpc[r] = "waiting"
    /\ semaphore > 0
    /\ semaphore' = semaphore - 1
    /\ acquired' = [acquired EXCEPT ![r] = TRUE]
    /\ mpc' = [mpc EXCEPT ![r] = "running"]
    /\ UNCHANGED status
    /\ UNCHANGED <<rvars, svars, evars, gvars>>

\* wait_for raises TimeoutError: the finally clause, then the 503 response
TimeOut(r) ==
    /\ mpc[r] = "waiting"
    /\ semaphore' = Released(acquired[r], semaphore)
    /\ status' = [status EXCEPT ![r] = 503]
    /\ mpc' = [mpc EXCEPT ![r] = "timed_out"]
    /\ UNCHANGED acquired
    /\ UNCHANGED <<rvars, svars, evars, gvars>>

\* call_next returns the handler's response
Return(r) ==
    /\ mpc[r] \in {"running", "passing"}
    /\ semaphore' = IF mpc[r] = "running" THEN Released(acquired[r], semaphore) ELSE semaphore
    /\ status' = [status EXCEPT ![r] = 200]
    /\ mpc' = [mpc EXCEPT ![r] = "done"]
    /\ UNCHANGED acquired
    /\ UNCHANGED <<rvars, svars, evars, gvars>>

\* call_next raises: a TimeoutError of the handler is answered 503 like a
\* timeout of the wait, any other Exception 500
Raise(r, error) ==
    /\ mpc[r] \in {"running", "passing"}
    /\ semaphore' = IF mpc[r] = "running" THEN Released(acquired[r], semaphore) ELSE semaphore
    /\ status' = [status EXCEPT ![r] =
                    IF error = "TimeoutError" /\ mpc[r] = "running" THEN 503 ELSE 500]
    /\ mpc' = [mpc EXCEPT ![r] = "done"]
    /\ UNCHANGED acquired
    /\ UNCHANGED <<rvars, svars, evars, gvars>>

\* the request's task is cancelled (the client went away): CancelledError is
\* no Exception, only the finally clause runs and there is no response
Cancel(r) ==
    /\ mpc[r] \in {"waiting", "running", "passing"}
    /\ semaphore' = IF mpc[r] = "passing" THEN semaphore ELSE Released(acquired[r], semaphore)
    /\ mpc' = [mpc EXCEPT ![r] = "cancelled"]
    /\ UNCHANGED <<acquired, status>>
    /\ UNCHANGED <<rvars, svars, evars, gvars>>

LimitNext ==
    \E r \in Requests :
        \/ \E protected \in BOOLEAN : Dispatch(r, protected)
        \/ Acquire(r)
        \/ TimeOut(r)
        \/ Return(r)
        \/ \E error \in {"TimeoutError", "ValueError"} : Raise(r, error)
        \/ Cancel(r)

SpecLimit == LimitInit /\ [][LimitNext]_vars

(***************************************************************************)
(* Properties of the score report                                          *)
(***************************************************************************)
Scored == report # Idle
MissingCritical == Len(report.missing_fields.critical)
MissingImportant == Len(report.missing_fields.important)

\* C2: total_score of every report lies within [0, 100] (0..1000 tenths),
\* whatever the document, the category weights and the penalties.
C2_TotalScoreInRange == Scored => report.total_score \in 0..1000

\* the clamp acted: the penalised subtotal lay outside [0, 100]
C2_Witness_Clamped ==
    /\ Scored
    /\ \/ report.subtotal_score * report.penalty_factor > 1000 * 1000000
             /\ report.total_score = 1000
       \/ report.subtotal_score < 0 /\ report.total_score = 0

\* C3: the factor is (0.8 if c > 3, 0.9 if c in {2,3}, else 1) times (0.95 if
\* i >= 5, else 1) for c missing critical and i missing important fields; it is
\* applied to the pre-penalty subtotal; c = 4 and i = 6 give 0.76;
\* penalty_applied holds exactly when the factor is below 1; penalty_reason
\* joins the applicable reasons with "and" and is null when none applies.
C3_PenaltyMultipliers ==
    Scored =>
        LET c == MissingCritical
            i == MissingImportant
            fc == IF c > 3 THEN 800 ELSE IF c \in {2, 3} THEN 900 ELSE 1000
            fi == IF i >= 5 THEN 950 ELSE 1000
            rc == IF c > 3 THEN <<"Multiple critical fields missing">>
                  ELSE IF c \in {2, 3} THEN <<"Some critical fields missing">> ELSE <<>>
            ri == IF i >= 5 THEN <<"Several important fields missing">> ELSE <<>>
            product == report.subtotal_score * report.penalty_factor
        IN /\ report.penalty_factor = fc * fi
           /\ (c = 4 /\ i = 6) => report.penalty_factor = 760000
           /\ report.penalty_applied <=> (report.penalty_factor < 1000000)
           /\ report.penalty_reason =
                 (IF rc \o ri = <<>> THEN Null
                  ELSE IF Len(rc \o ri) = 1 THEN S((rc \o ri)[1])
                  ELSE S(rc[1] \o " and " \o ri[1]))
           /\ (product >= 0 /\ product <= 1000 * 1000000) =>
                 /\ 2 * (1000000 * report.total_score - product) <= 1000000
                 /\ 2 * (product - 1000000 * report.total_score) <= 1000000

\* four critical and six important fields are missing and both penalties compose
C3_Witness_BothPenalties ==
    /\ Scored
    /\ MissingCritical = 4 /\ MissingImportant = 6
    /\ report.penalty_factor = 760000
    /\ report.penalty_applied
    /\ report.penalty_reason
         = S("Multiple critical fields missing and Several important fields missing")

\* the profile the claim describes: presence as the report's field checklist
\* has it, the post-penalty total against minimum_score, highest tier first
ChecklistPresent(f) ==
    f \in DOMAIN report.field_checklist /\ report.field_checklist[f].present
ProfileSatisfiedByChecklist(pn) ==
    LET profile == COMPLETENESS_PROFILES(Registries[reg])[pn]
    IN /\ \A f \in SeqToSet(profile.required_fields) : ChecklistPresent(f)
       /\ report.total_score >= 10 * profile.minimum_score
ProfileByChecklist ==
    IF ProfileSatisfiedByChecklist("advanced") THEN "Advanced"
    ELSE IF ProfileSatisfiedByChecklist("standard") THEN "Standard"
    ELSE IF ProfileSatisfiedByChecklist("basic") THEN "Basic"
    ELSE "incomplete"

\* C4: the reported profile is the highest profile (advanced > standard > basic)
\* whose required fields are all present in the sense of the report's field
\* checklist and whose minimum_score the post-penalty total reaches;
\* "incomplete" is reported iff no profile is satisfied.
C4_ProfileMatchesChecklist ==
    Scored =>
        /\ report.completeness_profile.name = ProfileByChecklist
        /\ report.completeness_profile.satisfied
              <=> \E pn \in {"basic", "standard", "advanced"} : ProfileSatisfiedByChecklist(pn)

\* a report whose checklist satisfies a profile while "incomplete" is reported
C4_Witness_Divergence ==
    /\ Scored
    /\ ProfileSatisfiedByChecklist("advanced")
    /\ report.completeness_profile.name = "incomplete"

\* the walk along the field's configured path ends in the scored document on
\* None, "" or []
ResolvesEmpty(f) ==
    LET path == StripRoot(Registries[reg].config[f].jsonpath)
        walked == Traverse(aibom, _split_path(path))
    IN ~HasPredOpener(path) /\ ~walked.exc /\ walked.present /\ ~Meaningful(walked.value)

\* C5: a registry field whose configured path resolves in the document to
\* None, "" or [] is marked absent in the report and listed as missing.
C5_EmptyValueReportedAbsent ==
    Scored =>
        \A f \in DOMAIN Registries[reg].config :
            ResolvesEmpty(f) =>
                /\ ~report.field_checklist[f].present
                /\ \E tier \in DOMAIN report.missing_fields :
                      f \in SeqToSet(report.missing_fields[tier])

\* a field whose path resolves to an empty value is reported present
C5_Witness_EmptyReportedPresent ==
    /\ Scored
    /\ \E f \in DOMAIN Registries[reg].config :
          ResolvesEmpty(f) /\ report.field_checklist[f].present

\* the categories of the catalog, their fields, and those the report lists present
ScoredRegistry == Registries[reg]
CategoriesOf(R) == {R.config[f].category : f \in DOMAIN R.config}
FieldsIn(R, c) == {f \in DOMAIN R.config : R.config[f].category = c}
ListedPresent(f) == report.field_checklist[f].present
AllListedPresent == \A f \in DOMAIN report.field_checklist : ListedPresent(f)

\* C14: the score of a category is (present / total) * category_weight
\* rounded to one decimal (within half a tenth of the exact value), a category
\* without fields scores zero, and the pre-penalty total is the sum of the
\* scores of the categories that have fields in the registry.
C14_CategoryScores ==
    Scored =>
        LET R == ScoredRegistry IN
        /\ \A c \in CategoriesOf(R) :
              LET total == Cardinality(FieldsIn(R, c))
                  present == Cardinality({f \in FieldsIn(R, c) : ListedPresent(f)})
                  exact == 10 * present * R.category_weights[c]
                  score == report.section_scores[c]
              IN /\ 2 * (score * total - exact) <= total
                 /\ 2 * (exact - score * total) <= total
        /\ \A c \in DOMAIN report.section_scores :
              FieldsIn(R, c) = {} => report.section_scores[c] = 0
        /\ report.subtotal_score = SumOver(report.section_scores, CategoriesOf(R))

\* the four fields of the category "security" are all present, the registry
\* gives the category 15 points, and the category scores 0
C14_Witness_SixthCategoryZero ==
    /\ Scored
    /\ "security" \in DOMAIN ScoredRegistry.category_weights
    /\ ScoredRegistry.category_weights["security"] = 15
    /\ \A f \in FieldsIn(ScoredRegistry, "security") : ListedPresent(f)
    /\ report.section_scores["security"] = 0

\* C15: a document in which every field of every category is present scores
\* the sum of all category weights configured in the registry, bounded at
\* 100, with no penalty applied.
C15_AllPresentScoresWeightSum ==
    (Scored /\ AllListedPresent) =>
        LET weights == ScoredRegistry.category_weights
            sum == 10 * SumOver(weights, DOMAIN weights)
        IN /\ report.total_score = (IF sum > 1000 THEN 1000 ELSE sum)
           /\ ~report.penalty_applied

\* every field is present, the six configured weights sum to 100, and the
\* total is 85.0
C15_Witness_AllPresentBelowSum ==
    /\ Scored
    /\ AllListedPresent
    /\ SumOver(ScoredRegistry.category_weights, DOMAIN ScoredRegistry.category_weights) = 100
    /\ report.total_score = 850
    /\ ~report.penalty_applied

WithPriority(priority) == SelectSeq(report.recommendations, LAMBDA r : r.priority = priority)
FieldsOf(recs) == [i \in 1..Len(recs) |-> recs[i].field]
FirstFive(fields) == [i \in 1..(IF Len(fields) < 5 THEN Len(fields) ELSE 5) |-> fields[i]]
GenericMessage(r) ==
    CASE r.priority = "high" -> "Missing critical field: " \o r.field
      [] r.priority = "medium" -> "Missing field: " \o r.field
      [] OTHER -> "Missing supplementary field: " \o r.field
RegistryMessage(r) == ScoredRegistry.validation_message[r.field].missing
OnePerField ==
    /\ \A i \in 1..Len(report.recommendations) :
          report.recommendations[i].priority \in {"high", "medium", "low"}
    /\ FieldsOf(WithPriority("high")) = report.missing_fields.critical
    /\ FieldsOf(WithPriority("medium")) = report.missing_fields.important
    /\ FieldsOf(WithPriority("low")) = FirstFive(report.missing_fields.supplementary)

\* C19 (as the code has it): one high-priority recommendation per missing
\* critical field, one medium-priority recommendation per missing important
\* field, and low-priority recommendations for the first five missing
\* supplementary fields in registry order; a high or medium recommendation
\* takes its message from the registry's validation message when the field has
\* one and from the generic template otherwise; a low one always uses the
\* generic template.
C19_RecommendationsPerTier ==
    Scored =>
        /\ OnePerField
        /\ \A i \in 1..Len(report.recommendations) :
              LET r == report.recommendations[i]
              IN r.message =
                    (IF r.priority # "low" /\ r.field \in DOMAIN ScoredRegistry.validation_message
                     THEN RegistryMessage(r) ELSE GenericMessage(r))

\* C19 (as stated): the same counts, and every recommendation takes its
\* message from the registry's validation message when one is defined for the
\* field, else from the generic template.
C19_MessageFromRegistryWhenDefined ==
    Scored =>
        /\ OnePerField
        /\ \A i \in 1..Len(report.recommendations) :
              LET r == report.recommendations[i]
              IN r.message =
                    (IF r.field \in DOMAIN ScoredRegistry.validation_message
                     THEN RegistryMessage(r) ELSE GenericMessage(r))

\* six supplementary fields are missing and five are recommended, the first
\* of them with the generic message though the registry has one for it
C19_Witness_CappedAndGeneric ==
    /\ Scored
    /\ Len(report.missing_fields.supplementary) = 6
    /\ Len(WithPriority("low")) = 5
    /\ WithPriority("low")[1].field = "downloadLocation"
    /\ "downloadLocation" \in DOMAIN ScoredRegistry.validation_message
    /\ WithPriority("low")[1].message = "Missing supplementary field: downloadLocation"

(***************************************************************************)
(* Properties of the path resolver                                         *)
(***************************************************************************)
Resolved == rres # Idle

\* a path no reading of the path syntax accepts: not a string, a bracket
\* without its partner, or a predicate opener that is no predicate
Malformed(path) ==
    \/ path = NonStringPath
    \/ CountTok(path, "[") # CountTok(path, "]")
    \/ HasTok(path, BrokenPred)

\* C10: resolve never raises, whatever the path, and every malformed path
\* returns present=False with value=None.
C10_NeverRaisesMalformedAbsent ==
    Resolved =>
        /\ ~rres.exc
        /\ Malformed(rpath) => (~rres.present /\ rres.value = Null)

\* a path with a stray closing bracket is reported present
C10_Witness_MalformedPresent ==
    /\ Resolved
    /\ CountTok(rpath, "]") > CountTok(rpath, "[")
    /\ rres.present
    /\ rres.value # Null

\* the parts of the resolved path, and the shape of one part
PlainPath == rpath # NonStringPath /\ ~HasPredOpener(rpath)
PathParts == _split_path(StripRoot(rpath))
IsKeyPart(part) == ~HasTok(part, "[") /\ ~HasTok(part, "]")
IsIndexedPart(part) ==
    /\ CountTok(part, "[") = 1
    /\ CountTok(part, "]") = 1
    /\ part[Len(part)] = "]"
    /\ IsIntLiteral(SubSeq(part, FirstTok(part, "[") + 1, Len(part) - 1))
PartKey(part) == SubSeq(part, 1, FirstTok(part, "[") - 1)
PartIndex(part) == IntOf(SubSeq(part, FirstTok(part, "[") + 1, Len(part) - 1))
HasKeyText(cur, key) == IsDict(cur) /\ KeyText(key) \in DOMAIN cur.v
Failed == ~rres.present /\ rres.value = Null

\* the elements of a list that a predicate selects, in list order
Selected(list, pred) ==
    {i \in 1..Len(list.v) :
        /\ IsDict(list.v[i])
        /\ PredKey(pred) \in DOMAIN list.v[i].v
        /\ list.v[i].v[PredKey(pred)] = S(PredVal(pred))}
\* a path base[?(@.key=='value')]suffix with one predicate, after its base
OnePredicate ==
    /\ rpath # NonStringPath
    /\ ~HasTok(rpath, BrokenPred)
    /\ Cardinality({i \in 1..Len(rpath) : rpath[i] \in PredToks}) = 1
    /\ PredMatchAt(StripRoot(rpath)) > 1
PredAt == PredMatchAt(StripRoot(rpath))
PredBase == Traverse(rdoc, _split_path(SubSeq(StripRoot(rpath), 1, PredAt - 1)))
PredSuffix == _split_path(SubSeq(StripRoot(rpath), PredAt + 1, Len(StripRoot(rpath))))
BaseIsList == ~PredBase.exc /\ PredBase.present /\ IsList(PredBase.value)

\* C11: resolution fails with (present=False, value=None) when the key of a
\* segment is missing from the object reached so far (the key part of an
\* indexed segment key[0] included), when an index is out of range or its
\* target is no list, and when a predicate matches no element.
C11_MissingKeyOrIndexFails ==
    Resolved =>
        /\ PlainPath =>
              \A k \in 1..Len(PathParts) :
                  LET before == Traverse(rdoc, SubSeq(PathParts, 1, k - 1))
                      part == PathParts[k]
                      cur == before.value
                  IN (~before.exc /\ before.present) =>
                        /\ (IsKeyPart(part) /\ ~HasKeyText(cur, part)) => Failed
                        /\ (IsIndexedPart(part) /\ Len(PartKey(part)) > 0
                               /\ ~HasKeyText(cur, PartKey(part))) => Failed
                        /\ (IsIndexedPart(part) /\ HasKeyText(cur, PartKey(part))) =>
                              LET target == cur.v[KeyText(PartKey(part))]
                              IN (~IsList(target) \/ PartIndex(part) < 0
                                     \/ PartIndex(part) >= Len(target.v)) => Failed
        /\ (OnePredicate /\ BaseIsList
               /\ Selected(PredBase.value, StripRoot(rpath)[PredAt]) = {}) => Failed

\* n[0].value[0]: the list n[0] has no key "value", and the index is applied
\* to the list itself
C11_Witness_MissingKeySkipped ==
    /\ Resolved
    /\ rpath = <<"n", "[", "0", "]", ".", "value", "[", "0", "]">>
    /\ rres.present
    /\ rres.value = N(2)

\* C12: a predicate selects the first element, in list order, whose key
\* stringifies to the predicate value; when several elements match, the
\* result, a suffix resolved inside the element included, is that of the first
\* one alone, even where the suffix is missing or empty there and present in
\* a later matching element.
C12_FirstMatchOnly ==
    (Resolved /\ OnePredicate /\ BaseIsList) =>
        LET hits == Selected(PredBase.value, StripRoot(rpath)[PredAt])
            path == StripRoot(rpath)
            suffix == SubSeq(path, PredAt + 1, Len(path))
        IN hits # {} =>
              LET first == PredBase.value.v[CHOOSE i \in hits : \A h \in hits : i <= h]
              IN /\ ~rres.exc
                 /\ suffix = <<>> => rres = Found(first)
                 /\ suffix # <<>> =>
                       rres = _get_nested_value(first, IF suffix[1] = "." THEN Tail(suffix) ELSE suffix)
                 /\ (Len(suffix) = 2 /\ suffix[1] = "." /\ suffix[2] \in {"k", "e", "value"}) =>
                       IF suffix[2] \in DOMAIN first.v /\ first.v[suffix[2]] \notin {Null, S(""), L(<<>>)}
                       THEN rres = Found(first.v[suffix[2]])
                       ELSE Failed

\* a[?(@.k=='v')].e: two elements match; "e" is empty in the first and "z"
\* in the later one, and the path is reported absent
C12_Witness_LaterMatchIgnored ==
    /\ Resolved
    /\ rpath = <<"a", PredK, ".", "e">>
    /\ Cardinality(Selected(rdoc.v["a"], PredK)) = 2
    /\ rdoc.v["a"].v[3].v["e"] = S("z")
    /\ Failed

\* the value at the end of a path all of whose segments resolve
EmptyValue(x) == x = Null \/ x = S("") \/ x = L(<<>>)
StructuralReach ==
    IF rpath = NonStringPath THEN NotFound
    ELSE IF ~HasPredOpener(rpath) THEN Traverse(rdoc, PathParts)
    ELSE IF OnePredicate /\ BaseIsList
              /\ Selected(PredBase.value, StripRoot(rpath)[PredAt]) # {}
         THEN LET hits == Selected(PredBase.value, StripRoot(rpath)[PredAt])
              IN Traverse(PredBase.value.v[CHOOSE i \in hits : \A h \in hits : i <= h], PredSuffix)
    ELSE NotFound

\* C13: resolve returns present=False when the value reached at the end of
\* the path is None, the empty string or the empty list, though every segment
\* resolved; for every other reached value it returns present=True with the
\* value.
C13_EmptyReachedValueAbsent ==
    (Resolved /\ ~StructuralReach.exc /\ StructuralReach.present) =>
        IF EmptyValue(StructuralReach.value)
        THEN Failed
        ELSE rres = Found(StructuralReach.value)

\* c.e resolves, to the empty list, and is reported absent
C13_Witness_EmptyReached ==
    /\ Resolved
    /\ rpath = <<"c", ".", "e">>
    /\ StructuralReach.present
    /\ EmptyValue(StructuralReach.value)
    /\ Failed

(***************************************************************************)
(* Properties of the extraction engine                                     *)
(***************************************************************************)
\* the chain of a field has just ended: `calls` is what it consulted
FieldDone == epc = "next" /\ fidx >= 1
Consulted == [i \in 1..Len(calls) |-> calls[i].strategy]
GaveValue == Len(calls) > 0 /\ calls[Len(calls)].outcome = "value"

\* the fixed order of the strategies
ChainOrder ==
    <<"api_direct", "model_card_yaml", "config_file", "text_pattern", "intelligent_inference",
      "license_file", "llm_summarization", "fallback_placeholder">>
\* the file probe is for license fields, enrichment for an enabled description
Applies(strategy, f, c) ==
    CASE strategy = "license_file" -> f \in {"license", "licenses"}
      [] strategy = "llm_summarization" ->
             f = "description" /\ c.enable_summarization /\ Truthy(c.readme_content)
      [] OTHER -> TRUE
\* the candidates a strategy can yield for field f in context c
Candidates(strategy, f, c) ==
    LET outcomes ==
            CASE strategy = "api_direct" -> {_try_api_extraction(f, c)}
              [] strategy = "model_card_yaml" -> {_try_model_card_extraction(f, c)}
              [] strategy = "config_file" -> {_try_config_extraction(f, c)}
              [] strategy = "text_pattern" -> _try_text_pattern_extraction(f, c)
              [] strategy = "intelligent_inference" -> {_try_intelligent_inference(f, c)}
              [] strategy = "license_file" ->
                     {r \in {_detect_license_from_file(c)} : Truthy(r.value)}
              [] strategy = "llm_summarization" -> {r \in {Summarize(c)} : Truthy(r.value)}
              [] OTHER -> {_try_fallback_value(f, FieldConfig(f))}
    IN IF Applies(strategy, f, c)
       THEN {r.value : r \in {o \in outcomes : ~o.exc /\ ~IsNull(o.value)}}
       ELSE {}
IsPrefix(s, t) == Len(s) <= Len(t) /\ \A i \in 1..Len(s) : s[i] = t[i]

\* (source, confidence) of each strategy
PairOf(strategy) ==
    CASE strategy = "api_direct" -> <<"huggingface_api", "high">>
      [] strategy = "model_card_yaml" -> <<"model_card_yaml", "high">>
      [] strategy = "config_file" -> <<"config_file", "high">>
      [] strategy = "text_pattern" -> <<"readme_text", "medium">>
      [] strategy = "intelligent_inference" -> <<"intelligent_default", "medium">>
      [] strategy = "license_file" -> <<"repository_files", "medium">>
      [] strategy = "llm_summarization" -> <<"intelligent_default", "medium">>
      [] OTHER -> <<"placeholder", "none">>
Strategies == {ChainOrder[i] : i \in 1..Len(ChainOrder)}

\* C1: the strategies are consulted in the fixed order API, card, config,
\* text pattern, inference, license-file probe, enrichment, fallback; the
\* value and provenance of a field are those of the earliest strategy that
\* yields a candidate, and no later strategy is consulted; when the API and a
\* text-pattern match both give a value, the API value wins.
C1_ChainOrderRespected ==
    FieldDone =>
        LET f == field_name
            chain == SelectSeq(ChainOrder, LAMBDA s : Applies(s, f, ctx))
        IN /\ IsPrefix(Consulted, chain)
           /\ \A i \in 1..(Len(calls) - 1) :
                 calls[i].outcome \in {"none", "caught"} /\ Candidates(calls[i].strategy, f, ctx) = {}
           /\ GaveValue =>
                 LET last == calls[Len(calls)].strategy
                     record == extraction_results[f]
                 IN /\ record.extraction_method = last
                    /\ record.value \in Candidates(last, f, ctx)
                    /\ <<record.source, record.confidence>> = PairOf(last)
                    /\ metadata[f] = record.value
           /\ (f \notin aborted /\ \E s \in Strategies : Candidates(s, f, ctx) # {}) => GaveValue
           /\ Candidates("api_direct", f, ctx) # {} =>
                 /\ extraction_results[f].extraction_method = "api_direct"
                 /\ extraction_results[f].value \in Candidates("api_direct", f, ctx)

\* the API record and the README both give a license; the API value is taken
C1_Witness_ApiBeatsText ==
    /\ FieldDone
    /\ field_name = "license"
    /\ Candidates("api_direct", "license", ctx) # {}
    /\ Candidates("text_pattern", "license", ctx) # {}
    /\ Consulted = <<"api_direct">>
    /\ extraction_results["license"].extraction_method = "api_direct"

\* "other", "unknown" or the empty-list literal, in any case; or a list of such
IsSentinelText(s) == PyLower(s) \in {"other", "unknown", "[]"}
IsSentinel(value) ==
    \/ IsStr(value) /\ IsSentinelText(value.v)
    \/ /\ IsList(value) /\ Len(value.v) > 0
       /\ \A i \in 1..Len(value.v) : IsStr(value.v[i]) /\ IsSentinelText(value.v[i].v)

\* C6: no value taken from the API lookup or from the card lookup (explicit,
\* multi-key or same-name) is a sentinel: "other", "unknown" or the empty-list
\* literal in any case, or a list whose content is such a value.
C6_NoSentinelFromApiOrCard ==
    \A f \in DOMAIN extraction_results :
        extraction_results[f].extraction_method \in {"api_direct", "model_card_yaml"}
            => ~IsSentinel(extraction_results[f].value)

\* the card's same-name lookup accepted "unknown"
C6_Witness_SentinelAccepted ==
    /\ "pipeline_tag" \in DOMAIN extraction_results
    /\ extraction_results["pipeline_tag"].extraction_method = "model_card_yaml"
    /\ extraction_results["pipeline_tag"].value = S("unknown")

\* C7: a failing strategy catches its failure itself, the remaining
\* strategies of the field are still attempted and the remaining fields still
\* processed: no call raises to the field loop, no field's chain is cut short,
\* and a finished run has a provenance record for every field.
C7_FailuresContained ==
    /\ \A i \in 1..Len(calls) : calls[i].outcome # "raised"
    /\ aborted = {}
    /\ epc = "returned" => DOMAIN extraction_results = SeqToSet(ExtractionFields)

\* the config strategy raised on a config.json that is no object: the chain
\* of model_type was cut after it, the later fields were still processed
C7_Witness_ChainCutShort ==
    /\ epc = "returned"
    /\ "model_type" \in aborted
    /\ "model_type" \notin DOMAIN extraction_results
    /\ "pipeline_tag" \in DOMAIN extraction_results

\* the record of a field that no strategy resolved
UnresolvedRecord ==
    [value |-> Null, source |-> "placeholder", confidence |-> "none",
     extraction_method |-> "extraction_failed"]
\* the keys added after the field loop, whatever the fields' outcome
AddedAfterLoop == {"external_references", "commit"}

C9_FixedProvenancePairs ==
    \A f \in DOMAIN extraction_results :
        LET record == extraction_results[f]
        IN /\ <<record.source, record.confidence>> \in {PairOf(s) : s \in Strategies}
           /\ ~IsNull(record.value) =>
                 /\ record.extraction_method \in Strategies
                 /\ <<record.source, record.confidence>> = PairOf(record.extraction_method)

\* one run whose records come from the API, a text pattern and the fallback
C9_Witness_SeveralStrategies ==
    /\ epc = "returned"
    /\ extraction_results["name"].extraction_method = "api_direct"
    /\ extraction_results["license"].extraction_method = "text_pattern"
    /\ extraction_results["license"].confidence = "medium"
    /\ extraction_results["description"].extraction_method = "fallback_placeholder"
    /\ extraction_results["description"].source = "placeholder"

\* the candidates of the license patterns that the noise filter lets through
SurvivingLicenseCandidates ==
    {x \in SeqToSet(ctx.readme_content.v["license"]) : PyLower(x) \notin text_ignored_values}

\* C17: the value the text-pattern strategy gives for a license field is the
\* longest of the de-duplicated candidates that survive the noise filter: it
\* is one of them and none of them is longer; a shorter one is never returned.
C17_LongestLicenseCandidate ==
    \A f \in {"license", "licenses"} \cap DOMAIN extraction_results :
        extraction_results[f].extraction_method = "text_pattern" =>
            LET value == extraction_results[f].value
            IN /\ IsStr(value)
               /\ value.v \in SurvivingLicenseCandidates
               /\ \A x \in SurvivingLicenseCandidates : Len(x) <= Len(value.v)
               /\ metadata[f] = value

\* the README gives "the", "Apache" and "Apache License 2.0"; the last is taken
C17_Witness_LongestTaken ==
    /\ "license" \in DOMAIN extraction_results
    /\ extraction_results["license"].extraction_method = "text_pattern"
    /\ SurvivingLicenseCandidates = {"Apache", "Apache License 2.0"}
    /\ extraction_results["license"].value = S("Apache License 2.0")

\* the strategies that come before the enrichment strategy
BeforeSummarization ==
    <<"api_direct", "model_card_yaml", "config_file", "text_pattern", "intelligent_inference",
      "license_file">>

\* C18: the summarizer is invoked only in a run whose enrichment flag is
\* set, only for the description field, and only after every earlier
\* strategy yielded no candidate; with the flag unset no call of the
\* summarizer is made and no provenance record has the summarization method.
C18_SummarizerOnlyWhenEnabled ==
    /\ \A i \in 1..Len(calls) :
          calls[i].strategy = "llm_summarization" =>
              /\ ctx.enable_summarization = TRUE
              /\ field_name = "description"
              /\ \A j \in 1..(i - 1) : calls[j].outcome \in {"none", "caught"}
              /\ [j \in 1..(i - 1) |-> calls[j].strategy]
                    = SelectSeq(BeforeSummarization, LAMBDA s : Applies(s, "description", ctx))
              /\ \A j \in 1..Len(BeforeSummarization) :
                    Candidates(BeforeSummarization[j], "description", ctx) = {}
    /\ \A f \in DOMAIN extraction_results :
          extraction_results[f].extraction_method = "llm_summarization" =>
              ctx.enable_summarization = TRUE /\ f = "description"

\* the flag is set, nothing else describes the model, the summary is recorded
C18_Witness_SummaryRecorded ==
    /\ FieldDone
    /\ field_name = "description"
    /\ ctx.enable_summarization = TRUE
    /\ Consulted = <<"api_direct", "model_card_yaml", "config_file", "text_pattern",
                     "intelligent_inference", "llm_summarization">>
    /\ extraction_results["description"].extraction_method = "llm_summarization"
    /\ extraction_results["description"].value = S("BERT is a language model")

\* C20: after an extraction run the metadata map and the provenance map are
\* parallel: a field name is a key of the metadata map exactly when the
\* provenance map has a record for it with a value that is not None, and the
\* metadata value is that record's value.
C20_MapsParallel ==
    epc = "returned" =>
        /\ \A k \in DOMAIN metadata \cup DOMAIN extraction_results :
              k \in DOMAIN metadata
                  <=> (k \in DOMAIN extraction_results /\ ~IsNull(extraction_results[k].value))
        /\ \A k \in DOMAIN metadata \cap DOMAIN extraction_results :
              metadata[k] = extraction_results[k].value

\* a finished run: name is in both maps with one value, commit is a key of
\* the metadata map and has no provenance record
C20_Witness_CommitWithoutRecord ==
    /\ epc = "returned"
    /\ "name" \in DOMAIN metadata
    /\ metadata["name"] = extraction_results["name"].value
    /\ "commit" \in DOMAIN metadata
    /\ "commit" \notin DOMAIN extraction_results

\* the record is one the context of the current run gives for field f
OfThisRun(f, record) ==
    \/ record = UnresolvedRecord
    \/ /\ record.extraction_method \in Strategies
       /\ record.value \in Candidates(record.extraction_method, f, ctx)

\* C21: after any sequence of extraction runs the provenance map holds
\* exactly one record for every registry field processed in the most recent
\* run, and no record left over from an earlier run.
C21_ProvenanceOfLatestRun ==
    epc = "returned" =>
        /\ DOMAIN extraction_results = SeqToSet(ExtractionFields)
        /\ \A f \in DOMAIN extraction_results : OfThisRun(f, extraction_results[f])

\* the second run of the extractor has ended; model_type was processed in it
\* and has no record, the other records are the second run's
C21_Witness_SecondRunLacksRecord ==
    /\ runs = 2
    /\ epc = "returned"
    /\ "model_type" \in aborted
    /\ "model_type" \notin DOMAIN extraction_results
    /\ \A f \in DOMAIN extraction_results : OfThisRun(f, extraction_results[f])

\* the captures of a pattern category that the noise filter lets through, in
\* the order of the category's patterns
SurvivingInPatternOrder(category) ==
    SelectSeq(ctx.readme_content.v[category], LAMBDA val : PyLower(val) \notin text_ignored_values)

\* C25: for model_type the text-pattern strategy returns the first surviving
\* match, the one of the earliest pattern of the ordered list that gave a
\* surviving candidate, so the result is the same on every run over one text.
C25_FirstSurvivingModelType ==
    ("model_type" \in DOMAIN extraction_results
        /\ extraction_results["model_type"].extraction_method = "text_pattern")
    => extraction_results["model_type"].value = S(Head(SurvivingInPatternOrder("model_type")))

\* the first pattern captured "BERT", the second "roberta"; "roberta" is taken
C25_Witness_LaterPatternTaken ==
    /\ "model_type" \in DOMAIN extraction_results
    /\ extraction_results["model_type"].extraction_method = "text_pattern"
    /\ SurvivingInPatternOrder("model_type") = <<"BERT", "roberta">>
    /\ extraction_results["model_type"].value = S("roberta")

\* "other" or "unknown" in any case, as the value or as an element of it
NamesNothing(value) ==
    \/ IsStr(value) /\ PyLower(value.v) \in {"other", "unknown"}
    \/ /\ IsList(value)
       /\ \E i \in 1..Len(value.v) :
             IsStr(value.v[i]) /\ PyLower(value.v[i].v) \in {"other", "unknown"}

\* C26: neither the text-pattern strategy nor the inference strategy yields
\* a candidate equal, in any case, to "other" or "unknown", for any model
\* identifier, for a single value and for each element of a returned list.
C26_NoSentinelFromTextOrInference ==
    \A f \in DOMAIN extraction_results :
        extraction_results[f].extraction_method \in {"text_pattern", "intelligent_inference"}
            => ~NamesNothing(extraction_results[f].value)

\* a model identifier without a namespace: suppliedBy is inferred as "unknown"
C26_Witness_InferredUnknown ==
    /\ "suppliedBy" \in DOMAIN extraction_results
    /\ ~HasSlash(ctx.model_id)
    /\ extraction_results["suppliedBy"].extraction_method = "intelligent_inference"
    /\ extraction_results["suppliedBy"].value = S("unknown")
    /\ metadata["suppliedBy"] = S("unknown")

\* the tiers the scorer keeps a missing list for
KnownTiers == {"critical", "important", "supplementary"}
TierOf(f) == Registries[reg].config[f].tier
MissingList(tier) == report.missing_fields[tier]
AbsentOfTier(tier) ==
    {f \in DOMAIN Registries[reg].config : TierOf(f) = tier /\ ~report.field_checklist[f].present}
Occurrences(list, f) == Cardinality({i \in 1..Len(list) : list[i] = f})

PresenceGrew ==
    \A f \in DOMAIN previous.field_checklist :
        previous.field_checklist[f].present => report.field_checklist[f].present
NoNegativeWeight ==
    \A c \in DOMAIN Registries[reg].category_weights : Registries[reg].category_weights[c] >= 0

\* C27 (with the condition the code needs): for a registry none of whose
\* category weights is negative, a document in which every field of another
\* is present, and more, does not score lower in total.
C27_MonotoneNonNegativeWeights ==
    (lastcall = "larger" /\ PresenceGrew /\ NoNegativeWeight)
        => report.total_score >= previous.total_score

\* C27 (as stated): for a fixed registry, if every field present in
\* document A is present in document B then total_score(A) <= total_score(B).
C27_MonotoneInPresence ==
    (lastcall = "larger" /\ PresenceGrew) => report.total_score >= previous.total_score

\* one more critical field in place lifts a penalty: the total rises by more
\* than the field's share of its category
C27_Witness_PenaltyLifted ==
    /\ lastcall = "larger"
    /\ NoNegativeWeight
    /\ PresenceGrew
    /\ previous.penalty_applied
    /\ ~report.penalty_applied
    /\ report.total_score > previous.total_score

\* C28: every registry field has a checklist entry; a field marked absent is
\* in exactly one of the missing lists, a field marked present in none; the
\* missing counts the penalties use are the numbers of absent fields of the
\* tier, whatever tier string the registry gives the field.
C28_EveryFieldAccounted ==
    report # Idle =>
        /\ DOMAIN report.field_checklist = DOMAIN Registries[reg].config
        /\ \A f \in DOMAIN report.field_checklist :
              SumOver([tier \in KnownTiers |-> Occurrences(MissingList(tier), f)], KnownTiers)
                  = IF report.field_checklist[f].present THEN 0 ELSE 1
        /\ \A tier \in KnownTiers : Len(MissingList(tier)) = Cardinality(AbsentOfTier(tier))
        /\ report.penalty_factor
              = CriticalPenalty(Cardinality(AbsentOfTier("critical")))[1]
                  * ImportantPenalty(Cardinality(AbsentOfTier("important")))[1]

\* the field of tier "optional" is marked absent and is in no missing list
C28_Witness_AbsentInNoList ==
    /\ report # Idle
    /\ TierOf("limitation") = "optional"
    /\ ~report.field_checklist["limitation"].present
    /\ \A tier \in KnownTiers : Occurrences(MissingList(tier), "limitation") = 0

(***************************************************************************)
(* Properties of the service                                               *)
(***************************************************************************)
Assembled == generation # Idle /\ generation.outcome = "full"
\* the version the statement names: the first 8 characters of the commit
\* hash, "1.0" without one
StatedVersion(commit) ==
    IF commit = Absent \/ commit.v = "" THEN "1.0" ELSE First8(commit.v)

\* C23: in every assembled AIBOM the component's version is the first 8
\* characters of the commit hash ("1.0" without a commit), and the dependency
\* entry's dependsOn reference is the component's purl and bom-ref, whatever
\* the number of "/" segments of the model identifier.
C23_DependsOnIsComponentPurl ==
    Assembled =>
        LET component == returned.components[1]
            dependency == returned.dependencies[1]
        IN /\ component.version = StatedVersion(generation.commit)
           /\ dependency.dependsOn = <<component.purl>>
           /\ component.bom_ref = component.purl
C23_Witness_ThreeSegments ==
    /\ Assembled
    /\ generation.model_id = "acme/models/bert"
    /\ generation.commit = S("0123456789abcdef")
    /\ returned.components[1].version = "01234567"
    /\ returned.components[1].purl = "pkg:huggingface/acme/models@01234567"
    /\ returned.dependencies[1].dependsOn = <<"pkg:huggingface/acme/models/bert@01234567">>

\* C24: in every outcome of validate_aibom, is_valid is true exactly when the
\* returned list of error messages is empty.
C24_ValidIffNoErrors ==
    validation # <<>> => (validation[1] <=> validation[2] = <<>>)
C24_Witness_SchemaUnavailable ==
    /\ validation = <<TRUE, <<"Schema unavailable">> >>
    /\ IsNull(_cached_schema)

\* C29: after any sequence of generate_aibom calls the stored report and
\* provenance describe the most recent call: the report is of the document
\* that call returned (none when the call fell back to the minimal
\* document), and the provenance is the one of that call's model.
DescribesReturned(stored) ==
    /\ stored.final_score.document = returned
    /\ stored.final_score.extraction_results = service_results
C29_ReportOfLatestCall ==
    generation # Idle =>
        /\ enhancement_report # Null => DescribesReturned(enhancement_report)
        /\ service_results # <<>> => service_results = ProvenanceOf(generation.model_id)
C29_Witness_StaleAfterFailure ==
    /\ generation # Idle
    /\ generation.outcome = "minimal"
    /\ generation.model_id = "acme/my model"
    /\ enhancement_report # Null
    /\ enhancement_report.final_score.document.components[1].name = "bert"
    /\ enhancement_report.final_score.document.components[1].group = ""
    /\ service_results = ProvenanceOf("bert")

(***************************************************************************)
(* Properties of the concurrency limit                                     *)
(***************************************************************************)
\* the protected requests inside the downstream handler
InHandler == {r \in Requests : mpc[r] = "running"}
Finished(r) == mpc[r] \in {"done", "timed_out", "cancelled"}

\* C30: under any interleaving at most max_concurrent_requests protected
\* requests are in the downstream handler, every permit taken is given back
\* exactly once when the handler returns or raises (the free permits and the
\* requests in the handler always add up to max_concurrent_requests), a
\* request that times out waiting is answered 503 and never held a permit,
\* and when all requests are finished every permit is free.
C30_PermitsConserved ==
    LimitIdle \/
        /\ Cardinality(InHandler) <= max_concurrent_requests
        /\ semaphore + Cardinality(InHandler) = max_concurrent_requests
        /\ \A r \in Requests : mpc[r] = "running" => acquired[r]
        /\ \A r \in Requests : mpc[r] = "timed_out" => status[r] = 503 /\ ~acquired[r]
        /\ (\A r \in Requests : Finished(r)) => semaphore = max_concurrent_requests
C30_Witness_FullThenDrained ==
    /\ ~LimitIdle
    /\ \A r \in Requests : Finished(r)
    /\ \E r \in Requests : mpc[r] = "timed_out" /\ status[r] = 503
    /\ Cardinality({r \in Requests : acquired[r] /\ mpc[r] = "done"}) = max_concurrent_requests
    /\ \E r \in Requests : acquired[r] /\ status[r] = 500
    /\ semaphore = max_concurrent_requests

====
